---- MODULE Spec2Model ----
(***************************************************************************)
(* Model of micro_sp_ui (src/app.py): the value dataclasses, the codec     *)
(* deserialize_spvalue / serialize_spvalue, parse_input_to_spvalue and the *)
(* Set State tab.                                                          *)
(*                                                                         *)
(* Every Python object is a record with a field k naming its class.  A     *)
(* Python str is a sequence of tokens: a token is a chunk of characters    *)
(* the code never looks inside (a civil date-time, a UTC offset, a word).  *)
(* A JSON text is the record JsonText(doc) of the document it parses to,   *)
(* or BadText for text that is not JSON.  A raised exception is the        *)
(* record Raise(class): an operator that models statements inside a try    *)
(* returns either its value or the exception that leaves it, and the       *)
(* operator of the except clause decides what is caught.  Floats are the   *)
(* integral finite ones, inf and nan.  hist logs every call of the codec    *)
(* functions with its argument and result; the codec properties are stated *)
(* over that log.                                                          *)
(*                                                                         *)
(* The Set State tab (state_setter_impl) is a second state machine:        *)
(* items_to_set is st.session_state.items_to_set, store is what the Redis  *)
(* server holds, shown is what the page shows after the last script run    *)
(* and press records what the last press of the set button did; hist logs  *)
(* the calls of pipe.execute().  SetterSpec fills the form in and submits  *)
(* it; FormSpec edits the form, removals included, and does not submit.    *)
(*                                                                         *)
(* read_all_data is a third state machine: reading is the call in          *)
(* progress, between its key enumeration and its batch read, while other   *)
(* clients of the server set and delete keys.                              *)
(***************************************************************************)
EXTENDS Integers, Sequences, FiniteSets, TLC

VARIABLES cur, hist, items_to_set, store, shown, press, reading

vars == <<cur, hist, items_to_set, store, shown, press, reading>>

\* ------------------------------------------------------------ bounds

\* longest Array / Map payload the inputs hold
MaxLen == 3
\* deepest nesting of containers inside containers in the inputs
MaxDepth == 2
\* longest chain of codec calls applied to one input
MaxSteps == 3
\* most variable rows configured in the Set State tab
MaxRows == 2
\* most pairs of a Map row, and most items of an Array row
MaxPairs == 2
\* largest id given to a row, a pair or an item
MaxId == 2
\* most pipelines sent to the server in one session
MaxPresses == 1

\* ------------------------------------------------------------ Python objects

PyNone == [k |-> "None"]
PyBool(b) == [k |-> "bool", b |-> b]
PyInt(n) == [k |-> "int", n |-> n]
\* a float: finite with the integral value n, or inf, or nan
PyFloat(n) == [k |-> "float", sp |-> "fin", n |-> n]
PyInf == [k |-> "float", sp |-> "inf", n |-> 0]
PyNaN == [k |-> "float", sp |-> "nan", n |-> 0]
PyStr(s) == [k |-> "str", s |-> s]
PyList(items) == [k |-> "list", items |-> items]
PyTuple(a, b) == [k |-> "tuple", items |-> <<a, b>>]
PyDict(f) == [k |-> "dict", f |-> f]
EmptyDict == PyDict([key \in {} |-> PyNone])
\* an instance of a class that is none of the dataclasses of app.py
PyObject == [k |-> "object"]
\* datetime: civil seconds since 1970-01-01T00:00:00 on the wall clock of its
\* own zone; aware = has a tzinfo; off = its UTC offset in seconds
PyDatetime(civil, aware, off) == [k |-> "datetime", civil |-> civil, aware |-> aware, off |-> off]

Raise(exc) == [k |-> "raise", exc |-> exc]
IsRaise(r) == r.k = "raise"

IsNone(x) == x.k = "None"

DictHas(d, key) == key \in DOMAIN d.f
\* dict.get(key, default)
DictGetDefault(d, key, default) == IF DictHas(d, key) THEN d.f[key] ELSE default
\* dict.get(key)
DictGet(d, key) == DictGetDefault(d, key, PyNone)

\* ------------------------------------------------------------ the dataclasses

BoolOrUnknown(value) == [k |-> "BoolOrUnknown", value |-> value]
FloatOrUnknown(value) == [k |-> "FloatOrUnknown", value |-> value]
IntOrUnknown(value) == [k |-> "IntOrUnknown", value |-> value]
StringOrUnknown(value) == [k |-> "StringOrUnknown", value |-> value]
TimeOrUnknown(value) == [k |-> "TimeOrUnknown", value |-> value]
ArrayOrUnknown(value) == [k |-> "ArrayOrUnknown", value |-> value]
MapOrUnknown(value) == [k |-> "MapOrUnknown", value |-> value]
TransformOrUnknown(value) == [k |-> "TransformOrUnknown", value |-> value]
SPTranslation(x, y, z) == [k |-> "SPTranslation", x |-> x, y |-> y, z |-> z]
SPRotation(x, y, z, w) == [k |-> "SPRotation", x |-> x, y |-> y, z |-> z, w |-> w]
SPTransform(translation, rotation) == [k |-> "SPTransform", translation |-> translation, rotation |-> rotation]
SPTransformStamped(active, time_stamp, parent_frame_id, child_frame_id, transform, metadata) == [k |-> "SPTransformStamped", active |-> active, time_stamp |-> time_stamp, parent_frame_id |-> parent_frame_id, child_frame_id |-> child_frame_id, transform |-> transform, metadata |-> metadata]

\* the eight Tag strings and the class each names (type_map_unknown)
Tags == {"Bool", "Float64", "Int64", "String", "Time", "Array", "Map", "Transform"}
ClassOfTag == ("Bool" :> "BoolOrUnknown") @@ ("Float64" :> "FloatOrUnknown") @@ ("Int64" :> "IntOrUnknown") @@ ("String" :> "StringOrUnknown") @@ ("Time" :> "TimeOrUnknown") @@ ("Array" :> "ArrayOrUnknown") @@ ("Map" :> "MapOrUnknown") @@ ("Transform" :> "TransformOrUnknown")
VariantClasses == {ClassOfTag[t] : t \in Tags}
IsVariant(x) == x.k \in VariantClasses
\* cls(value=None)
UnknownOf(tag) == [k |-> ClassOfTag[tag], value |-> PyNone]
TagOfClass(c) == CHOOSE t \in Tags : ClassOfTag[t] = c

\* ------------------------------------------------------------ Python built-ins

\* the civil date-time texts of the model and the wall-clock second each names
CivilSecs == ("1970-01-01T00:00:00" :> 0) @@ ("1970-01-01T00:00:01" :> 1) @@ ("2024-01-01T00:00:00" :> 1704067200) @@ ("2024-01-01T02:00:00" :> 1704074400)
\* the UTC-offset texts of the model and the seconds each names
OffsetSecs == ("+00:00" :> 0) @@ ("+02:00" :> 7200)
CivilTextOf(n) == CHOOSE c \in DOMAIN CivilSecs : CivilSecs[c] = n
OffsetTextOf(n) == CHOOSE o \in DOMAIN OffsetSecs : OffsetSecs[o] = n
\* the decimal texts int() and float() read
IntTexts == ("0" :> 0) @@ ("1" :> 1)
FloatTexts == ("0.0" :> PyFloat(0)) @@ ("1.0" :> PyFloat(1)) @@ ("inf" :> PyInf) @@ ("nan" :> PyNaN)

\* the whitespace tokens str.strip() removes
Whitespace == {" "}

\* str.strip() that removes nothing
StripNothing(s) == s

\* str.strip(): s without its leading and trailing whitespace
Strip(s) ==
  LET inked == {i \in DOMAIN s : s[i] \notin Whitespace}
  IN IF inked = {} THEN <<>>
     ELSE SubSeq(s, CHOOSE i \in inked : \A j \in inked : i <= j, CHOOSE i \in inked : \A j \in inked : i >= j)

\* str.endswith(tok), for a one-token suffix
EndsWith(s, tok) == Len(s) > 0 /\ s[Len(s)] = tok
\* s[:-1] + tok
ReplaceLast(s, tok) == SubSeq(s, 1, Len(s) - 1) \o <<tok>>
\* str.replace(old, new), old a whole token
StrReplace(s, old, new) == [i \in DOMAIN s |-> IF s[i] = old THEN new ELSE s[i]]

\* datetime.fromisoformat(s): a civil text, or a civil text and an offset;
\* anything else raises ValueError
FromIsoFormat(s) ==
  IF Len(s) = 1 /\ s[1] \in DOMAIN CivilSecs THEN PyDatetime(CivilSecs[s[1]], FALSE, 0)
  ELSE IF Len(s) = 2 /\ s[1] \in DOMAIN CivilSecs /\ s[2] \in DOMAIN OffsetSecs
    THEN PyDatetime(CivilSecs[s[1]], TRUE, OffsetSecs[s[2]])
  ELSE Raise("ValueError")

\* datetime.isoformat(): the civil text, then the offset when aware
IsoFormat(dt) == <<CivilTextOf(dt.civil)>> \o (IF dt.aware THEN <<OffsetTextOf(dt.off)>> ELSE <<>>)

\* parsed.replace(tzinfo=timezone.utc)
ReplaceTzUtc(dt) == PyDatetime(dt.civil, TRUE, 0)

\* the number a bool, int or finite float stands for
NumOf(x) == IF x.k = "bool" THEN (IF x.b THEN 1 ELSE 0) ELSE x.n
IsNumber(x) == x.k \in {"bool", "int", "float"}

\* datetime.fromtimestamp(x, tz=timezone.utc) for a number x
FromTimestamp(x) ==
  IF x.k = "float" /\ x.sp = "inf" THEN Raise("OverflowError")
  ELSE IF x.k = "float" /\ x.sp = "nan" THEN Raise("ValueError")
  ELSE PyDatetime(NumOf(x), TRUE, 0)

\* bool(x)
PyTruth(x) ==
  CASE x.k = "None" -> FALSE
    [] x.k = "bool" -> x.b
    [] x.k = "int" -> x.n # 0
    [] x.k = "float" -> x.sp # "fin" \/ x.n # 0
    [] x.k = "str" -> Len(x.s) > 0
    [] x.k \in {"list", "tuple"} -> Len(x.items) > 0
    [] x.k = "dict" -> DOMAIN x.f # {}
    [] OTHER -> TRUE

\* int(x): a PyInt, or the exception int() raises; whitespace around the
\* digits of a str is ignored
IntOf(x) ==
  CASE x.k \in {"bool", "int"} -> PyInt(NumOf(x))
    [] x.k = "float" -> IF x.sp = "fin" THEN PyInt(x.n) ELSE IF x.sp = "inf" THEN Raise("OverflowError") ELSE Raise("ValueError")
    [] x.k = "str" -> LET t == Strip(x.s) IN IF Len(t) = 1 /\ t[1] \in DOMAIN IntTexts THEN PyInt(IntTexts[t[1]]) ELSE Raise("ValueError")
    [] OTHER -> Raise("TypeError")

\* float(x): a float, or the exception float() raises
FloatOf(x) ==
  CASE x.k \in {"bool", "int"} -> PyFloat(NumOf(x))
    [] x.k = "float" -> x
    [] x.k = "str" -> LET t == Strip(x.s)
                      IN IF Len(t) = 1 /\ t[1] \in DOMAIN IntTexts THEN PyFloat(IntTexts[t[1]])
                         ELSE IF Len(t) = 1 /\ t[1] \in DOMAIN FloatTexts THEN FloatTexts[t[1]]
                         ELSE Raise("ValueError")
    [] OTHER -> Raise("TypeError")

\* str(x): never raises; the text of a list or dict is one opaque token
StrOf(x) ==
  CASE x.k = "str" -> x
    [] x.k = "None" -> PyStr(<<"None">>)
    [] x.k = "bool" -> PyStr(<<IF x.b THEN "True" ELSE "False">>)
    [] x.k = "int" -> PyStr(<<IF \E t \in DOMAIN IntTexts : IntTexts[t] = x.n THEN (CHOOSE t \in DOMAIN IntTexts : IntTexts[t] = x.n) ELSE "<digits>">>)
    [] x.k = "float" -> PyStr(<<IF x.sp = "fin" THEN (CHOOSE t \in DOMAIN FloatTexts : FloatTexts[t] = x) ELSE x.sp>>)
    [] x.k = "list" -> PyStr(<<"[...]">>)
    [] OTHER -> PyStr(<<"{...}">>)

\* key in x: dict membership, element of a list, substring (token) of a str;
\* any other operand raises TypeError
PyIn(key, x) ==
  CASE x.k = "dict" -> PyBool(DictHas(x, key))
    [] x.k = "str" -> PyBool(\E i \in DOMAIN x.s : x.s[i] = key)
    [] x.k = "list" -> PyBool(\E i \in DOMAIN x.items : x.items[i] = PyStr(<<key>>))
    [] OTHER -> Raise("TypeError")

\* x[key] for a str key: the entry of a dict (KeyError when missing); a str or
\* a list takes integer indices only
PyIndex(x, key) ==
  IF x.k = "dict" THEN (IF DictHas(x, key) THEN x.f[key] ELSE Raise("KeyError"))
  ELSE Raise("TypeError")

RECURSIVE PyEq(_, _)
\* a == b: numbers by value (nan equals nothing), aware datetimes by instant,
\* naive never equal to aware, sequences and dataclasses field by field
PyEq(a, b) ==
  IF IsNumber(a) /\ IsNumber(b) THEN
    LET fa == IF a.k = "float" THEN a.sp ELSE "fin"
        fb == IF b.k = "float" THEN b.sp ELSE "fin"
    IN fa # "nan" /\ fb # "nan" /\ fa = fb /\ (fa = "fin" => NumOf(a) = NumOf(b))
  ELSE IF a.k # b.k THEN FALSE
  ELSE CASE a.k = "datetime" -> a.aware = b.aware /\ a.civil - a.off = b.civil - b.off
         [] a.k \in {"list", "tuple"} -> Len(a.items) = Len(b.items) /\ \A i \in DOMAIN a.items : PyEq(a.items[i], b.items[i])
         [] a.k = "dict" -> DOMAIN a.f = DOMAIN b.f /\ \A key \in DOMAIN a.f : PyEq(a.f[key], b.f[key])
         [] a.k = "str" -> a.s = b.s
         [] a.k \in {"None", "object", "raise", "text"} -> a = b
         [] OTHER -> \A fld \in DOMAIN a \ {"k"} : PyEq(a[fld], b[fld])

\* ------------------------------------------------------------ json

\* a str holding JSON text that parses to doc
JsonText(doc) == [k |-> "text", doc |-> doc]
\* a str that is not JSON
BadText == [k |-> "text", doc |-> [k |-> "syntaxerror"]]

RECURSIVE JsonSerializable(_)
\* what json.dumps accepts: None, bool, numbers, str, lists and dicts of them
JsonSerializable(x) ==
  CASE x.k \in {"None", "bool", "int", "float", "str"} -> TRUE
    [] x.k \in {"list", "tuple"} -> \A i \in DOMAIN x.items : JsonSerializable(x.items[i])
    [] x.k = "dict" -> \A key \in DOMAIN x.f : JsonSerializable(x.f[key])
    [] OTHER -> FALSE

RECURSIVE JsonNormal(_)
\* the document a dumped object is read back as: a tuple comes back as a list
JsonNormal(x) ==
  CASE x.k \in {"list", "tuple"} -> PyList([i \in DOMAIN x.items |-> JsonNormal(x.items[i])])
    [] x.k = "dict" -> PyDict([key \in DOMAIN x.f |-> JsonNormal(x.f[key])])
    [] OTHER -> x

\* json.dumps(x): the text, or TypeError for an object JSON cannot hold
JsonDumps(x) == IF JsonSerializable(x) THEN JsonText(JsonNormal(x)) ELSE Raise("TypeError")

\* json.loads(t): the document, JSONDecodeError for text that is not JSON,
\* TypeError for an argument that is no str
JsonLoads(t) ==
  IF t.k # "text" THEN Raise("TypeError")
  ELSE IF t.doc.k = "syntaxerror" THEN Raise("JSONDecodeError")
  ELSE t.doc

\* ------------------------------------------------------------ deserialize_spvalue

\* the first raised exception among the results of consecutive statements, or
\* PyNone when none of them raised
FirstRaise(steps) ==
  IF \E i \in DOMAIN steps : IsRaise(steps[i])
  THEN steps[CHOOSE i \in DOMAIN steps : IsRaise(steps[i]) /\ \A j \in 1..(i - 1) : ~IsRaise(steps[j])]
  ELSE PyNone

\* the Tag a `type` field names, "" when it names none
TagOf(value_type) ==
  IF value_type.k = "str" /\ Len(value_type.s) = 1 /\ value_type.s[1] \in Tags THEN value_type.s[1] ELSE ""

\* DeserializeUnknown with a type map that lacks the container variants
DeserializeUnknownScalarsOnly(value_type) ==
  IF value_type.k \in {"list", "dict"} THEN Raise("TypeError")
  ELSE IF TagOf(value_type) \in {"Bool", "Float64", "Int64", "String", "Time"} THEN UnknownOf(TagOf(value_type))
  ELSE PyNone

\* DeserializeUnknown that falls back to String for a `type` it does not know
DeserializeUnknownGuessString(value_type) ==
  IF value_type.k \in {"list", "dict"} THEN Raise("TypeError")
  ELSE IF TagOf(value_type) # "" THEN UnknownOf(TagOf(value_type))
  ELSE UnknownOf("String")

\* raw_value == "UNKNOWN": type_map_unknown.get(value_type), then cls(value=None)
DeserializeUnknown(value_type) ==
  IF value_type.k \in {"list", "dict"} THEN Raise("TypeError")
  ELSE IF TagOf(value_type) # "" THEN UnknownOf(TagOf(value_type))
  ELSE PyNone

\* DeserializeBool without the `is not None` guard: bool(None) is False
DeserializeBoolNoGuard(nested_value_dict) ==
  BoolOrUnknown(PyBool(PyTruth(DictGet(nested_value_dict, "Bool"))))

DeserializeBool(nested_value_dict) ==
  LET val == DictGet(nested_value_dict, "Bool")
  IN BoolOrUnknown(IF IsNone(val) THEN PyNone ELSE PyBool(PyTruth(val)))

DeserializeFloat64(nested_value_dict) ==
  LET val == DictGet(nested_value_dict, "Float64")
      r == IF IsNone(val) THEN PyNone ELSE FloatOf(val)
  IN IF IsRaise(r) THEN (IF r.exc \in {"ValueError", "TypeError"} THEN FloatOrUnknown(PyNone) ELSE r)
     ELSE FloatOrUnknown(r)

DeserializeInt64(nested_value_dict) ==
  LET val == DictGet(nested_value_dict, "Int64")
      r == IF IsNone(val) THEN PyNone ELSE IntOf(val)
  IN IF IsRaise(r) THEN (IF r.exc \in {"ValueError", "TypeError"} THEN IntOrUnknown(PyNone) ELSE r)
     ELSE IntOrUnknown(r)

DeserializeString(nested_value_dict) ==
  LET val == DictGet(nested_value_dict, "String")
  IN StringOrUnknown(IF IsNone(val) THEN PyNone ELSE StrOf(val))

\* ParseIsoText that leaves a naive result naive
ParseIsoTextKeepNaive(time_val) ==
  LET txt == IF EndsWith(time_val.s, "Z") THEN ReplaceLast(time_val.s, "+00:00") ELSE time_val.s
      parsed == FromIsoFormat(txt)
  IN IF IsRaise(parsed) THEN (IF parsed.exc = "ValueError" THEN PyNone ELSE parsed) ELSE parsed

\* the str branch of the time parse: a trailing Z becomes +00:00, the text is
\* read by fromisoformat, a naive result is put in UTC; ValueError gives None
ParseIsoText(time_val) ==
  LET txt == IF EndsWith(time_val.s, "Z") THEN ReplaceLast(time_val.s, "+00:00") ELSE time_val.s
      parsed == FromIsoFormat(txt)
  IN IF IsRaise(parsed) THEN (IF parsed.exc = "ValueError" THEN PyNone ELSE parsed)
     ELSE IF ~parsed.aware THEN ReplaceTzUtc(parsed) ELSE parsed

\* the number branch of the time parse: ValueError and TypeError give None,
\* any other exception leaves the branch
ParseTimestamp(time_val) ==
  LET parsed == FromTimestamp(time_val)
  IN IF IsRaise(parsed) /\ parsed.exc \in {"ValueError", "TypeError"} THEN PyNone ELSE parsed

\* parsed_time of the Time branch
ParseTimeValue(time_val) ==
  IF time_val.k = "str" THEN ParseIsoText(time_val)
  ELSE IF IsNumber(time_val) THEN ParseTimestamp(time_val)
  ELSE PyNone

DeserializeTime(nested_value_dict) ==
  LET parsed_time == ParseTimeValue(DictGet(nested_value_dict, "Time"))
  IN IF IsRaise(parsed_time) THEN parsed_time ELSE TimeOrUnknown(parsed_time)

\* parsed_ts of the Transform branch
ParseTimeStamp(ts_val) ==
  IF ts_val.k = "str" THEN ParseIsoText(ts_val)
  ELSE IF IsNumber(ts_val) THEN ParseTimestamp(ts_val)
  ELSE PyNone

\* DeserializeAxis without the `in` test: float(d[axis]) for every axis
DeserializeAxisNoTest(d, axis) ==
  LET v == PyIndex(d, axis) IN IF IsRaise(v) THEN v ELSE FloatOf(v)

\* float(d[axis]) if axis in d else None
DeserializeAxis(d, axis) ==
  LET has == PyIn(axis, d)
  IN IF IsRaise(has) THEN has
     ELSE IF ~has.b THEN PyNone
     ELSE LET v == PyIndex(d, axis) IN IF IsRaise(v) THEN v ELSE FloatOf(v)

\* x.get(key, {}) on an object that may be no dict
GetOrEmpty(x, key) ==
  IF IsRaise(x) THEN x
  ELSE IF x.k = "dict" THEN DictGetDefault(x, key, EmptyDict)
  ELSE Raise("AttributeError")

\* OuterExcept without the final `except Exception`
OuterExceptJsonOnly(r) == IF IsRaise(r) /\ r.exc = "JSONDecodeError" THEN PyNone ELSE r

\* the except clause of the try around the whole function
OuterExcept(r) == IF IsRaise(r) THEN PyNone ELSE r

RECURSIVE deserialize_spvalue(_)

\* one item of an Array payload: the item decoded, PyNone when it is dropped
DeserializeItem(item_dict) ==
  LET item_json == JsonDumps(item_dict)
      deserialized_item == IF IsRaise(item_json) THEN item_json ELSE deserialize_spvalue(item_json)
  IN IF IsRaise(deserialized_item) THEN PyNone
     ELSE IF PyTruth(deserialized_item) THEN deserialized_item ELSE PyNone

\* DeserializeArray that gives up the whole Array on an item that fails
DeserializeArrayFailFast(nested_value_dict) ==
  LET list_val == DictGet(nested_value_dict, "Array")
  IN IF list_val.k = "list"
     THEN LET items == [i \in DOMAIN list_val.items |-> DeserializeItem(list_val.items[i])]
          IN IF \E i \in DOMAIN items : IsNone(items[i]) THEN ArrayOrUnknown(PyNone)
             ELSE ArrayOrUnknown(PyList(items))
     ELSE ArrayOrUnknown(PyNone)

DeserializeArray(nested_value_dict) ==
  LET list_val == DictGet(nested_value_dict, "Array")
  IN IF list_val.k = "list"
     THEN LET items == [i \in DOMAIN list_val.items |-> DeserializeItem(list_val.items[i])]
          IN ArrayOrUnknown(PyList(SelectSeq(items, LAMBDA r : ~IsNone(r))))
     ELSE ArrayOrUnknown(PyNone)

\* DeserializePair that keeps a pair when either side decoded (`or` for `and`)
DeserializePairEitherSide(pair) ==
  IF pair.k = "list" /\ Len(pair.items) = 2
  THEN LET deserialized_key == deserialize_spvalue(JsonDumps(pair.items[1]))
           deserialized_value == deserialize_spvalue(JsonDumps(pair.items[2]))
       IN IF IsRaise(FirstRaise(<<deserialized_key, deserialized_value>>)) THEN PyNone
          ELSE IF ~IsNone(deserialized_key) \/ ~IsNone(deserialized_value)
            THEN PyTuple(deserialized_key, deserialized_value)
          ELSE PyNone
  ELSE PyNone

\* one pair of a Map payload: the (key, value) tuple, PyNone when it is dropped
DeserializePair(pair) ==
  IF pair.k = "list" /\ Len(pair.items) = 2
  THEN LET key_json == JsonDumps(pair.items[1])
           value_json == JsonDumps(pair.items[2])
           deserialized_key == IF IsRaise(key_json) THEN key_json ELSE deserialize_spvalue(key_json)
           deserialized_value == IF IsRaise(value_json) THEN value_json ELSE deserialize_spvalue(value_json)
       IN IF IsRaise(FirstRaise(<<key_json, value_json, deserialized_key, deserialized_value>>)) THEN PyNone
          ELSE IF ~IsNone(deserialized_key) /\ ~IsNone(deserialized_value)
            THEN PyTuple(deserialized_key, deserialized_value)
          ELSE PyNone
  ELSE PyNone

RECURSIVE DropRepeatedKeys(_)
\* the pairs q without those whose key an earlier pair has
DropRepeatedKeys(q) ==
  IF q = <<>> THEN <<>>
  ELSE LET front == DropRepeatedKeys(SubSeq(q, 1, Len(q) - 1))
           last == q[Len(q)]
       IN IF \E h \in DOMAIN front : front[h].items[1] = last.items[1] THEN front ELSE Append(front, last)

\* DeserializeMap that keeps one pair for each key
DeserializeMapOnePerKey(nested_value_dict) ==
  LET map_val_list == DictGet(nested_value_dict, "Map")
  IN IF map_val_list.k = "list"
     THEN LET pairs == [i \in DOMAIN map_val_list.items |-> DeserializePair(map_val_list.items[i])]
          IN MapOrUnknown(PyList(DropRepeatedKeys(SelectSeq(pairs, LAMBDA r : ~IsNone(r)))))
     ELSE MapOrUnknown(PyNone)

DeserializeMap(nested_value_dict) ==
  LET map_val_list == DictGet(nested_value_dict, "Map")
  IN IF map_val_list.k = "list"
     THEN LET pairs == [i \in DOMAIN map_val_list.items |-> DeserializePair(map_val_list.items[i])]
          IN MapOrUnknown(PyList(SelectSeq(pairs, LAMBDA r : ~IsNone(r))))
     ELSE MapOrUnknown(PyNone)

\* DeserializeMetadata without the defaults: whatever the field decodes to
DeserializeMetadataAsDecoded(metadata_dict) ==
  IF metadata_dict.k = "dict"
  THEN LET deserialized_metadata == deserialize_spvalue(JsonDumps(metadata_dict))
       IN IF IsRaise(deserialized_metadata) THEN PyNone ELSE deserialized_metadata
  ELSE PyNone

\* the metadata field of a Transform payload: a MapOrUnknown in every case
DeserializeMetadata(metadata_dict) ==
  IF metadata_dict.k = "dict"
  THEN LET metadata_json == JsonDumps(metadata_dict)
           deserialized_metadata == IF IsRaise(metadata_json) THEN metadata_json ELSE deserialize_spvalue(metadata_json)
       IN IF IsRaise(deserialized_metadata) THEN MapOrUnknown(PyNone)
          ELSE IF deserialized_metadata.k # "MapOrUnknown" THEN MapOrUnknown(PyNone)
          ELSE deserialized_metadata
  ELSE MapOrUnknown(PyNone)

\* the try block of the Transform branch: the record, or what it raised
DeserializeStamped(tf_stamped_dict) ==
  LET parsed_ts == ParseTimeStamp(DictGet(tf_stamped_dict, "time_stamp"))
      tf_dict == DictGetDefault(tf_stamped_dict, "transform", EmptyDict)
      trans_dict == GetOrEmpty(tf_dict, "translation")
      rot_dict == GetOrEmpty(tf_dict, "rotation")
      tx == IF IsRaise(trans_dict) THEN trans_dict ELSE DeserializeAxis(trans_dict, "x")
      ty == IF IsRaise(trans_dict) THEN trans_dict ELSE DeserializeAxis(trans_dict, "y")
      tz == IF IsRaise(trans_dict) THEN trans_dict ELSE DeserializeAxis(trans_dict, "z")
      rx == IF IsRaise(rot_dict) THEN rot_dict ELSE DeserializeAxis(rot_dict, "x")
      ry == IF IsRaise(rot_dict) THEN rot_dict ELSE DeserializeAxis(rot_dict, "y")
      rz == IF IsRaise(rot_dict) THEN rot_dict ELSE DeserializeAxis(rot_dict, "z")
      rw == IF IsRaise(rot_dict) THEN rot_dict ELSE DeserializeAxis(rot_dict, "w")
      raised == FirstRaise(<<parsed_ts, trans_dict, rot_dict, tx, ty, tz, rx, ry, rz, rw>>)
  IN IF IsRaise(raised) THEN raised
     ELSE SPTransformStamped(
            IF DictHas(tf_stamped_dict, "active") THEN PyBool(PyTruth(tf_stamped_dict.f["active"])) ELSE PyNone,
            parsed_ts,
            IF DictHas(tf_stamped_dict, "parent_frame_id") THEN StrOf(tf_stamped_dict.f["parent_frame_id"]) ELSE PyNone,
            IF DictHas(tf_stamped_dict, "child_frame_id") THEN StrOf(tf_stamped_dict.f["child_frame_id"]) ELSE PyNone,
            SPTransform(SPTranslation(tx, ty, tz), SPRotation(rx, ry, rz, rw)),
            DeserializeMetadata(DictGet(tf_stamped_dict, "metadata")))

DeserializeTransform(nested_value_dict) ==
  LET tf_stamped_dict == DictGet(nested_value_dict, "Transform")
  IN IF tf_stamped_dict.k = "dict"
     THEN LET stamped == DeserializeStamped(tf_stamped_dict)
          IN IF IsRaise(stamped)
             THEN (IF stamped.exc \in {"ValueError", "TypeError", "KeyError"} THEN TransformOrUnknown(PyNone) ELSE stamped)
             ELSE TransformOrUnknown(stamped)
     ELSE TransformOrUnknown(PyNone)

\* the body of the outer try: a value, PyNone, or the exception that leaves it
DeserializeBody(json_str) ==
  LET data == JsonLoads(json_str)
  IN IF IsRaise(data) THEN data
     ELSE IF data.k # "dict" THEN Raise("AttributeError")
     ELSE LET value_type == DictGet(data, "type")
              raw_value == DictGet(data, "value")
              nested_value_dict == IF raw_value.k = "dict" THEN raw_value ELSE EmptyDict
              tag == TagOf(value_type)
          IN IF PyEq(raw_value, PyStr(<<"UNKNOWN">>)) THEN DeserializeUnknown(value_type)
             ELSE CASE tag = "Bool" -> DeserializeBool(nested_value_dict)
                    [] tag = "Float64" -> DeserializeFloat64(nested_value_dict)
                    [] tag = "Int64" -> DeserializeInt64(nested_value_dict)
                    [] tag = "String" -> DeserializeString(nested_value_dict)
                    [] tag = "Time" -> DeserializeTime(nested_value_dict)
                    [] tag = "Array" -> DeserializeArray(nested_value_dict)
                    [] tag = "Map" -> DeserializeMap(nested_value_dict)
                    [] tag = "Transform" -> DeserializeTransform(nested_value_dict)
                    [] OTHER -> PyNone

\* deserialize_spvalue(json_str): a value, or PyNone for a decode failure
deserialize_spvalue(json_str) == OuterExcept(DeserializeBody(json_str))

\* ------------------------------------------------------------ serialize_spvalue

NoKeys == [key \in {} |-> PyNone]
\* {key: x} when present holds, {} otherwise
KeyIf(present, key, x) == IF present THEN (key :> x) ELSE NoKeys
\* data = {"type": tag, "value": nested_value}
WireDoc(tag, nested_value) == PyDict(("type" :> PyStr(<<tag>>)) @@ ("value" :> nested_value))
UnknownDoc(tag) == WireDoc(tag, PyStr(<<"UNKNOWN">>))
\* {"Tag": payload} if the payload is not None else "UNKNOWN"
NestedValue(tag, payload) == IF IsNone(payload) THEN PyStr(<<"UNKNOWN">>) ELSE PyDict((tag :> payload))

\* value.isoformat().replace('+00:00', 'Z'); AttributeError for a value that is
\* no datetime
IsoTimeOf(value) ==
  IF value.k # "datetime" THEN Raise("AttributeError")
  ELSE PyStr(StrReplace(IsoFormat(value), "+00:00", "Z"))

\* obj.field; AttributeError when obj is no instance of class cls
Attr(obj, cls, field) == IF obj.k = cls THEN obj[field] ELSE Raise("AttributeError")

\* the except clause of the try around the whole function
SerializeExcept(r) == IF IsRaise(r) THEN PyNone ELSE r

\* LoadBack that does not load: the item's text put in the parent as a string
LoadBackAsString(item_str) ==
  IF IsRaise(item_str) \/ IsNone(item_str) THEN item_str
  ELSE PyStr(<<"{\"type\":...}">>)

\* item_str, loaded back to a document: PyNone when the item did not serialize
LoadBack(item_str) ==
  IF IsRaise(item_str) \/ IsNone(item_str) THEN item_str
  ELSE LET doc == JsonLoads(item_str) IN IF IsRaise(doc) THEN PyNone ELSE doc

RECURSIVE serialize_spvalue(_)

\* SerializeArray that skips an item that does not serialize
SerializeArraySkip(value) ==
  IF value.k \notin {"list", "tuple"} THEN Raise("TypeError")
  ELSE LET serialized_items == [i \in DOMAIN value.items |-> LoadBack(serialize_spvalue(value.items[i]))]
       IN PyDict(("Array" :> PyList(SelectSeq(serialized_items, LAMBDA d : ~IsRaise(d) /\ ~IsNone(d)))))

\* the nested value of a present Array: PyNone is the early `return None`
SerializeArray(value) ==
  IF value.k \notin {"list", "tuple"} THEN Raise("TypeError")
  ELSE LET serialized_items == [i \in DOMAIN value.items |-> LoadBack(serialize_spvalue(value.items[i]))]
       IN IF IsRaise(FirstRaise(serialized_items)) THEN FirstRaise(serialized_items)
          ELSE IF \E i \in DOMAIN serialized_items : IsNone(serialized_items[i]) THEN PyNone
          ELSE PyDict(("Array" :> PyList(serialized_items)))

\* one (key, value) of a present Map: the [keyDoc, valueDoc] list, PyNone for
\* the early `return None`, ValueError or TypeError for an entry that does not
\* unpack into two
SerializePair(pair) ==
  IF pair.k \notin {"list", "tuple"} THEN Raise("TypeError")
  ELSE IF Len(pair.items) # 2 THEN Raise("ValueError")
  ELSE LET parsed_key == LoadBack(serialize_spvalue(pair.items[1]))
           parsed_value == LoadBack(serialize_spvalue(pair.items[2]))
       IN IF IsRaise(FirstRaise(<<parsed_key, parsed_value>>)) THEN FirstRaise(<<parsed_key, parsed_value>>)
          ELSE IF IsNone(parsed_key) \/ IsNone(parsed_value) THEN PyNone
          ELSE PyList(<<parsed_key, parsed_value>>)

\* the nested value of a present Map
SerializeMap(value) ==
  IF value.k \notin {"list", "tuple"} THEN Raise("TypeError")
  ELSE LET serialized_pairs == [i \in DOMAIN value.items |-> SerializePair(value.items[i])]
           stop == IF \E i \in DOMAIN serialized_pairs : IsRaise(serialized_pairs[i]) \/ IsNone(serialized_pairs[i])
                   THEN serialized_pairs[CHOOSE i \in DOMAIN serialized_pairs :
                          /\ IsRaise(serialized_pairs[i]) \/ IsNone(serialized_pairs[i])
                          /\ \A j \in 1..(i - 1) : ~(IsRaise(serialized_pairs[j]) \/ IsNone(serialized_pairs[j]))]
                   ELSE PyStr(<<>>)
       IN IF stop.k # "str" THEN stop
          ELSE PyDict(("Map" :> PyList(serialized_pairs)))

\* one group of axes, an absent axis written as null
AxesDoc(obj, cls, axes) == PyDict([a \in axes |-> Attr(obj, cls, a)])

\* SerializeGeometry with the alternative the comment at the `else` names: an
\* empty "transform" object when a part is missing
SerializeGeometryEmptyObject(transform) ==
  IF IsNone(transform) THEN ("transform" :> EmptyDict)
  ELSE LET trans == Attr(transform, "SPTransform", "translation")
           rot == Attr(transform, "SPTransform", "rotation")
       IN IF IsRaise(trans) THEN ("transform" :> trans)
          ELSE IF ~PyTruth(trans) \/ ~PyTruth(rot) THEN ("transform" :> EmptyDict)
          ELSE ("transform" :> PyDict(("translation" :> AxesDoc(trans, "SPTranslation", {"x", "y", "z"}))
                                      @@ ("rotation" :> AxesDoc(rot, "SPRotation", {"x", "y", "z", "w"}))))

\* the "transform" entry of stamped_dict: present only when transform,
\* translation and rotation are all truthy
SerializeGeometry(transform) ==
  IF IsNone(transform) THEN NoKeys
  ELSE LET trans == Attr(transform, "SPTransform", "translation")
           rot == Attr(transform, "SPTransform", "rotation")
       IN IF IsRaise(trans) THEN ("transform" :> trans)
          ELSE IF ~PyTruth(trans) THEN NoKeys
          ELSE IF ~PyTruth(rot) THEN NoKeys
          ELSE LET td == AxesDoc(trans, "SPTranslation", {"x", "y", "z"})
                   rd == AxesDoc(rot, "SPRotation", {"x", "y", "z", "w"})
                   bad == {d \in {td, rd} : \E a \in DOMAIN d.f : IsRaise(d.f[a])}
               IN IF bad # {} THEN ("transform" :> Raise("AttributeError"))
                  ELSE ("transform" :> PyDict(("translation" :> td) @@ ("rotation" :> rd)))

\* SerializeMetadata that gives up the Transform when its metadata does not
\* serialize
SerializeMetadataFailFast(metadata_obj) ==
  IF IsNone(metadata_obj) THEN UnknownDoc("Map")
  ELSE LET metadata_str == serialize_spvalue(metadata_obj)
       IN IF IsRaise(metadata_str) THEN metadata_str
          ELSE IF IsNone(metadata_str) THEN PyNone
          ELSE LET doc == JsonLoads(metadata_str) IN IF IsRaise(doc) THEN PyNone ELSE doc

\* the "metadata" entry of stamped_dict: the metadata's own document, the
\* unknown-Map document when it is None or does not serialize
SerializeMetadata(metadata_obj) ==
  IF IsNone(metadata_obj) THEN UnknownDoc("Map")
  ELSE LET metadata_str == serialize_spvalue(metadata_obj)
       IN IF IsRaise(metadata_str) THEN metadata_str
          ELSE IF IsNone(metadata_str) THEN UnknownDoc("Map")
          ELSE LET doc == JsonLoads(metadata_str) IN IF IsRaise(doc) THEN PyNone ELSE doc

\* the nested value of a present Transform
SerializeStamped(stamped_obj) ==
  IF stamped_obj.k # "SPTransformStamped" THEN Raise("AttributeError")
  ELSE LET ts == IF IsNone(stamped_obj.time_stamp) THEN PyNone ELSE IsoTimeOf(stamped_obj.time_stamp)
           geometry == SerializeGeometry(stamped_obj.transform)
           geo == IF DOMAIN geometry = {} THEN PyNone ELSE geometry["transform"]
           metadata == SerializeMetadata(stamped_obj.metadata)
           raised == FirstRaise(<<ts, geo, metadata>>)
       IN IF IsRaise(raised) THEN raised
          ELSE IF IsNone(metadata) THEN PyNone
          ELSE PyDict(("Transform" :> PyDict(
                 KeyIf(~IsNone(stamped_obj.active), "active", stamped_obj.active)
                 @@ KeyIf(~IsNone(ts), "time_stamp", ts)
                 @@ KeyIf(~IsNone(stamped_obj.parent_frame_id), "parent_frame_id", stamped_obj.parent_frame_id)
                 @@ KeyIf(~IsNone(stamped_obj.child_frame_id), "child_frame_id", stamped_obj.child_frame_id)
                 @@ geometry
                 @@ ("metadata" :> metadata))))

\* nested_value of a variant: "UNKNOWN" for an absent payload, {Tag: payload}
\* otherwise; PyNone for an early `return None`; or the exception raised
SerializeNested(value_obj) ==
  LET value == value_obj.value
  IN IF IsNone(value) THEN PyStr(<<"UNKNOWN">>)
     ELSE CASE value_obj.k = "TimeOrUnknown" ->
                 (LET iso_time == IsoTimeOf(value) IN IF IsRaise(iso_time) THEN iso_time ELSE NestedValue("Time", iso_time))
            [] value_obj.k = "ArrayOrUnknown" -> SerializeArray(value)
            [] value_obj.k = "MapOrUnknown" -> SerializeMap(value)
            [] value_obj.k = "TransformOrUnknown" -> SerializeStamped(value)
            [] OTHER -> NestedValue(TagOfClass(value_obj.k), value)

\* SerializeBody that writes an object of no variant as the String of its text
SerializeBodyAnyObject(value_obj) ==
  IF ~IsVariant(value_obj) THEN JsonDumps(WireDoc("String", NestedValue("String", StrOf(value_obj))))
  ELSE LET nested_value == SerializeNested(value_obj)
       IN IF IsRaise(nested_value) \/ IsNone(nested_value) THEN nested_value
          ELSE JsonDumps(WireDoc(TagOfClass(value_obj.k), nested_value))

\* the body of the try: the JSON text, PyNone, or the exception that leaves it
SerializeBody(value_obj) ==
  IF ~IsVariant(value_obj) THEN PyNone
  ELSE LET nested_value == SerializeNested(value_obj)
       IN IF IsRaise(nested_value) \/ IsNone(nested_value) THEN nested_value
          ELSE JsonDumps(WireDoc(TagOfClass(value_obj.k), nested_value))

\* serialize_spvalue(value_obj): the JSON text, or PyNone for an encode failure
serialize_spvalue(value_obj) == SerializeExcept(SerializeBody(value_obj))

\* ------------------------------------------------------------ parse_input_to_spvalue

\* the tokens that hold letters, with their upper-case and lower-case forms; a
\* token that is not listed holds no letter
UpperForms ==
  ("unknown" :> "UNKNOWN") @@ ("Unknown" :> "UNKNOWN") @@ ("true" :> "TRUE") @@ ("True" :> "TRUE") @@ ("t" :> "T")
  @@ ("yes" :> "YES") @@ ("y" :> "Y") @@ ("false" :> "FALSE") @@ ("False" :> "FALSE") @@ ("f" :> "F")
  @@ ("no" :> "NO") @@ ("n" :> "N") @@ ("abc" :> "ABC") @@ ("inf" :> "INF") @@ ("nan" :> "NAN")
  @@ ("2024-01-01T00:00:00" :> "2024-01-01T00:00:00") @@ ("Z" :> "Z")
LowerForms ==
  ("UNKNOWN" :> "unknown") @@ ("Unknown" :> "unknown") @@ ("TRUE" :> "true") @@ ("True" :> "true") @@ ("T" :> "t")
  @@ ("YES" :> "yes") @@ ("Y" :> "y") @@ ("FALSE" :> "false") @@ ("False" :> "false") @@ ("F" :> "f")
  @@ ("NO" :> "no") @@ ("N" :> "n") @@ ("ABC" :> "abc") @@ ("INF" :> "inf") @@ ("NAN" :> "nan")
  @@ ("2024-01-01T00:00:00" :> "2024-01-01t00:00:00") @@ ("Z" :> "z")

\* str.upper()
Upper(s) == [i \in DOMAIN s |-> IF s[i] \in DOMAIN UpperForms THEN UpperForms[s[i]] ELSE s[i]]
\* str.lower()
Lower(s) == [i \in DOMAIN s |-> IF s[i] \in DOMAIN LowerForms THEN LowerForms[s[i]] ELSE s[i]]

\* the test for the sentinel made without upper(): "UNKNOWN" in capitals only
IsUnknownInputExact(input_str) == input_str = <<"UNKNOWN">>

\* input_str.upper() == "UNKNOWN"
IsUnknownInput(input_str) == Upper(input_str) = <<"UNKNOWN">>

\* target_type(value=None) if target_type, else None; a class that is no
\* variant takes no `value` argument
ParseUnknown(target_type) ==
  IF target_type = "None" THEN PyNone
  ELSE IF target_type \in VariantClasses THEN [k |-> target_type, value |-> PyNone]
  ELSE Raise("TypeError")

TrueLiterals == {"true", "t", "yes", "y", "1"}
FalseLiterals == {"false", "f", "no", "n", "0"}

\* the Bool branch with the literals compared as written, without lower()
ParseBoolAsWritten(input_str) ==
  IF \E lit \in TrueLiterals : input_str = <<lit>> THEN BoolOrUnknown(PyBool(TRUE))
  ELSE IF \E lit \in FalseLiterals : input_str = <<lit>> THEN BoolOrUnknown(PyBool(FALSE))
  ELSE PyNone

\* the Bool branch
ParseBool(input_str) ==
  LET low_str == Lower(input_str)
  IN IF \E lit \in TrueLiterals : low_str = <<lit>> THEN BoolOrUnknown(PyBool(TRUE))
     ELSE IF \E lit \in FalseLiterals : low_str = <<lit>> THEN BoolOrUnknown(PyBool(FALSE))
     ELSE PyNone

\* the Int branch: ValueError is the failure result
ParseInt(input_str) ==
  LET n == IntOf(PyStr(input_str))
  IN IF IsRaise(n) THEN (IF n.exc = "ValueError" THEN PyNone ELSE n) ELSE IntOrUnknown(n)

\* the Float branch: ValueError is the failure result
ParseFloat(input_str) ==
  LET x == FloatOf(PyStr(input_str))
  IN IF IsRaise(x) THEN (IF x.exc = "ValueError" THEN PyNone ELSE x) ELSE FloatOrUnknown(x)

\* the Time branch: a trailing Z read as +00:00, a naive time taken as UTC,
\* ValueError the failure result
ParseTime(input_str) ==
  LET dt_val == IF EndsWith(input_str, "Z") THEN ReplaceLast(input_str, "+00:00") ELSE input_str
      parsed_dt == FromIsoFormat(dt_val)
  IN IF IsRaise(parsed_dt) THEN (IF parsed_dt.exc = "ValueError" THEN PyNone ELSE parsed_dt)
     ELSE TimeOrUnknown(IF parsed_dt.aware THEN parsed_dt ELSE ReplaceTzUtc(parsed_dt))

\* the Array, Map and Transform branches, had they built an empty container
ParseCompositeAsEmpty(input_str, target_type) ==
  IF target_type = "TransformOrUnknown" THEN PyNone ELSE [k |-> target_type, value |-> PyList(<<>>)]

\* the Array, Map and Transform branches: a warning and the failure result
ParseComposite(input_str, target_type) == PyNone

\* the String branch: the text as it stands after strip()
ParseString(input_str) == StringOrUnknown(PyStr(input_str))

\* parse_input_to_spvalue(input_str, target_type): a Value, PyNone for a parse
\* failure, or the exception that leaves the function; target_type is the
\* name of a class, "None" for no class
parse_input_to_spvalue(input_str, target_type) ==
  LET stripped == Strip(input_str.s)
  IN IF IsUnknownInput(stripped) THEN ParseUnknown(target_type)
     ELSE CASE target_type = "BoolOrUnknown" -> ParseBool(stripped)
            [] target_type = "IntOrUnknown" -> ParseInt(stripped)
            [] target_type = "FloatOrUnknown" -> ParseFloat(stripped)
            [] target_type = "TimeOrUnknown" -> ParseTime(stripped)
            [] target_type \in {"ArrayOrUnknown", "MapOrUnknown", "TransformOrUnknown"} -> ParseComposite(stripped, target_type)
            [] target_type \in {"None", "StringOrUnknown"} -> ParseString(stripped)
            [] OTHER -> PyNone

\* ------------------------------------------------------------ state_setter_impl

SIMPLE_TYPE_NAMES == <<"String", "Int64", "Float64", "Bool", "Time">>
TYPE_NAME_MAP ==
  ("String" :> "StringOrUnknown") @@ ("Int64" :> "IntOrUnknown") @@ ("Float64" :> "FloatOrUnknown")
  @@ ("Bool" :> "BoolOrUnknown") @@ ("Time" :> "TimeOrUnknown")
\* TYPE_NAME_MAP.get(type_name): the class, "None" for a name not in the map
get_target_type_class(type_name) == IF type_name \in DOMAIN TYPE_NAME_MAP THEN TYPE_NAME_MAP[type_name] ELSE "None"

\* one row of st.session_state.items_to_set
Item(id, key, value_str, current_type_name, map_pairs, array_items) ==
  [id |-> id, key |-> key, value_str |-> value_str, current_type_name |-> current_type_name,
   map_pairs |-> map_pairs, array_items |-> array_items]
\* the row appended when the list is empty and by "Add Another Variable"
NewItem(new_id) == Item(new_id, "", PyStr(<<>>), "Unknown", <<>>, <<>>)

\* the pair appended by "Add Map Pair"
NewPair(new_pair_id) ==
  [id |-> new_pair_id, key_type |-> "String", key_str |-> PyStr(<<>>), value_type |-> "String", value_str |-> PyStr(<<>>)]
\* the item appended by "Add Array Item"
NewArrayItem(new_item_id) == [id |-> new_item_id, item_type |-> "String", item_str |-> PyStr(<<>>)]

\* max() of a set of ids that is not empty
MaxOf(ids) == CHOOSE m \in ids : \A n \in ids : m >= n
\* the list without its member at index idx
DeleteAt(list, idx) == SubSeq(list, 1, idx - 1) \o SubSeq(list, idx + 1, Len(list))

\* new_pair_id that counts the pairs
new_pair_id_by_count(map_pairs) == Len(map_pairs)

\* max(item['id'] for item in items_to_set) + 1 if items_to_set else 0
new_id(items) == IF items # <<>> THEN MaxOf({items[i].id : i \in DOMAIN items}) + 1 ELSE 0
\* max((p['id'] for p in item['map_pairs']), default=-1) + 1
new_pair_id(map_pairs) == MaxOf({-1} \cup {map_pairs[p].id : p \in DOMAIN map_pairs}) + 1
\* max((it['id'] for it in item['array_items']), default=-1) + 1
new_item_id(array_items) == MaxOf({-1} \cup {array_items[p].id : p \in DOMAIN array_items}) + 1

\* the block that runs before the rows are drawn: a list that is empty gets
\* the default row
EnsureItem(items) == IF items = <<>> THEN <<NewItem(0)>> ELSE items

\* one message on the page: what it says, the key it names ("" for none) and
\* the count it states (0 for none)
Message(kind, key, count) == [kind |-> kind, key |-> key, count |-> count]
\* a row that is not put in the batch, with the text appended to `errors`
RowError(kind, key) == [k |-> "error", message |-> Message(kind, key, 0)]

\* the loop over zip(all_keys, values_str) of read_all_data: each stored text
\* decoded, PyNone for a text that does not decode
DecodedData(kv) == [key \in DOMAIN kv |-> deserialize_spvalue(kv[key])]

\* TargetTypeName that takes every key for a String
TargetTypeNameString(current_data, selected_key) == "StringOrUnknown"

\* type(current_val_obj).__name__ if current_val_obj else "StringOrUnknown"
TargetTypeName(current_data, selected_key) ==
  LET current_val_obj == IF selected_key # "" /\ selected_key \in DOMAIN current_data
                         THEN current_data[selected_key] ELSE PyNone
  IN IF PyTruth(current_val_obj) THEN current_val_obj.k ELSE "StringOrUnknown"

\* what one pass of the input loop leaves in a row: the type name of the
\* value read for its key; value_str cleared for a Map or Array row, the pairs
\* and items cleared for every other row
RenderItem(item, current_data) ==
  LET name == TargetTypeName(current_data, item.key)
      composite == name \in {"MapOrUnknown", "ArrayOrUnknown"}
  IN Item(item.id, item.key,
          IF composite THEN PyStr(<<>>) ELSE item.value_str,
          name,
          IF composite THEN item.map_pairs ELSE <<>>,
          IF composite THEN item.array_items ELSE <<>>)
RenderItems(items, current_data) == [i \in DOMAIN items |-> RenderItem(items[i], current_data)]
\* one script run of the tab up to the buttons below the rows: the default
\* row when there is none, then every row drawn
Render(items, current_data) == RenderItems(EnsureItem(items), current_data)

\* the first member of results that is an error or an exception, PyNone when
\* there is none
FirstStop(results) ==
  LET stops == {i \in DOMAIN results : results[i].k \in {"error", "raise"}}
  IN IF stops = {} THEN PyNone ELSE results[CHOOSE i \in stops : \A j \in stops : i <= j]

\* a result of the loop over a row's pairs or items that is a parsed member
IsParsed(result) == result.k \notin {"error", "raise"}
\* FirstStopOr that builds the variant from the members that parsed
FirstStopOrKeepParsed(results, variant) == [k |-> variant, value |-> PyList(SelectSeq(results, IsParsed))]

\* what the loop over a row's pairs or items leaves: the first error or
\* exception met, or else the variant built from the whole list
FirstStopOr(results, variant) ==
  IF IsNone(FirstStop(results)) THEN [k |-> variant, value |-> PyList(results)] ELSE FirstStop(results)

\* the checks on the two parsed halves of a pair: the (key, value) tuple, or
\* the error of the pair
PairOf(key, parsed_key, parsed_value) ==
  IF IsRaise(parsed_key) THEN parsed_key
  ELSE IF IsRaise(parsed_value) THEN parsed_value
  ELSE IF IsNone(parsed_key) \/ IsNone(parsed_value) THEN RowError("failed to parse map pair", key)
  ELSE PyTuple(parsed_key, parsed_value)

\* one pair of a Map row: the (key, value) tuple, or the error of the pair
ParsePairData(key, pair_data) ==
  IF get_target_type_class(pair_data.key_type) = "None" \/ get_target_type_class(pair_data.value_type) = "None"
  THEN RowError("invalid type in map pair", key)
  ELSE PairOf(key,
              parse_input_to_spvalue(pair_data.key_str, get_target_type_class(pair_data.key_type)),
              parse_input_to_spvalue(pair_data.value_str, get_target_type_class(pair_data.value_type)))

\* the check on a parsed item: the Value, or the error of the item
ItemOf(key, parsed_item) ==
  IF IsRaise(parsed_item) THEN parsed_item
  ELSE IF IsNone(parsed_item) THEN RowError("failed to parse array item", key)
  ELSE parsed_item

\* one item of an Array row: the Value, or the error of the item
ParseItemData(key, item_data) ==
  IF get_target_type_class(item_data.item_type) = "None" THEN RowError("invalid type in array item", key)
  ELSE ItemOf(key, parse_input_to_spvalue(item_data.item_str, get_target_type_class(item_data.item_type)))

\* the class a row of a simple type is parsed for
TargetClass(current_type_name) ==
  IF current_type_name = "Unknown" THEN "StringOrUnknown"
  ELSE IF current_type_name \in VariantClasses THEN current_type_name
  ELSE "None"

\* the check on the parsed text of a row of a simple type
SimpleOf(key, parsed_spvalue) ==
  IF IsNone(parsed_spvalue) THEN RowError("failed to parse input", key) ELSE parsed_spvalue

\* the PARSE step of one row: the Value, an error, or an exception
ParseRow(item) ==
  CASE item.current_type_name = "MapOrUnknown" ->
         FirstStopOr([i \in DOMAIN item.map_pairs |-> ParsePairData(item.key, item.map_pairs[i])], "MapOrUnknown")
    [] item.current_type_name = "ArrayOrUnknown" ->
         FirstStopOr([i \in DOMAIN item.array_items |-> ParseItemData(item.key, item.array_items[i])], "ArrayOrUnknown")
    [] OTHER ->
         SimpleOf(item.key, parse_input_to_spvalue(item.value_str, TargetClass(item.current_type_name)))

\* the SERIALIZE step of one row: the text, or the error of the row
SerializedOf(key, serialized_json) ==
  IF IsNone(serialized_json) THEN RowError("failed to serialize parsed value", key) ELSE serialized_json

\* what follows the PARSE step of one row
ParsedOf(key, parsed_spvalue) ==
  IF IsRaise(parsed_spvalue) THEN RowError("unexpected error during processing", key)
  ELSE IF parsed_spvalue.k = "error" THEN parsed_spvalue
  ELSE SerializedOf(key, serialize_spvalue(parsed_spvalue))

\* the body of the loop for one row with a key: the text to set, or the error
ProcessItem(item) == ParsedOf(item.key, ParseRow(item))

\* keys_to_set[key] = json_val on a dict kept as the list of its (key, value)
\* in insertion order
DictSet(d, key, json_val) ==
  IF \E i \in DOMAIN d : d[i][1] = key
  THEN [i \in DOMAIN d |-> IF d[i][1] = key THEN <<key, json_val>> ELSE d[i]]
  ELSE Append(d, <<key, json_val>>)

\* success_count, error_count = 0, 0: success_count is not assigned again
success_count == 0

\* one pass of the loop: a row without a key is skipped, an error is
\* appended and counted, a text is put in keys_to_set
AfterItem(before, item, result) ==
  IF item.key = "" THEN before
  ELSE IF result.k = "error"
    THEN [before EXCEPT !.errors = Append(@, result.message), !.error_count = @ + 1]
  ELSE [before EXCEPT !.keys_to_set = DictSet(@, item.key, result)]

RECURSIVE ProcessItems(_)
\* the loop over the rows: errors, error_count and keys_to_set after it
ProcessItems(items) ==
  IF items = <<>> THEN [errors |-> <<>>, error_count |-> 0, keys_to_set |-> <<>>]
  ELSE AfterItem(ProcessItems(SubSeq(items, 1, Len(items) - 1)),
                 items[Len(items)],
                 ProcessItem(items[Len(items)]))

\* the messages of "Display Errors": the header with its count, then each
\* error
ErrorDisplay(errors, error_count) ==
  IF errors = <<>> THEN <<>>
  ELSE <<Message("found errors", "", error_count + Len(errors))>> \o errors

\* nothing on the page but the form
NothingShown == [warnings |-> <<>>, errors |-> <<>>]
\* a script run in which the set button was not pressed
NoPress == [pressed |-> FALSE, commands |-> <<>>, applied |-> {}, results |-> PyNone, cache_cleared |-> FALSE, rerun |-> FALSE]

\* the server's contents after the SETs of the keys in `applied`
StoreAfter(kv, commands, applied) ==
  [key \in DOMAIN kv \cup applied |->
     IF key \in applied THEN commands[CHOOSE i \in DOMAIN commands : commands[i][1] = key][2] ELSE kv[key]]

\* the key of the first command of the pipeline that the server refused
FirstRefused(commands, applied) ==
  commands[CHOOSE i \in DOMAIN commands :
             /\ commands[i][1] \notin applied
             /\ \A j \in 1..(i - 1) : commands[j][1] \in applied][1]

\* ------------------------------------------------------------ read_all_data

\* the keys of the model, in the order sorted() puts them
KeyOrder == <<"flag", "junk", "table">>

RECURSIVE SortedFrom(_, _)
\* the keys KeyOrder[i..] in sorted order, each as many times as counts says
SortedFrom(i, counts) ==
  IF i > Len(KeyOrder) THEN <<>>
  ELSE (IF KeyOrder[i] \in DOMAIN counts THEN [j \in 1..counts[KeyOrder[i]] |-> KeyOrder[i]] ELSE <<>>)
       \o SortedFrom(i + 1, counts)

\* sorted([key for key in r.scan_iter('*')]): counts[key] is how many times
\* the iteration returned key
SortedKeys(counts) == SortedFrom(1, counts)

\* r.mget(all_keys): the text of each key, None for a key the server does not
\* hold
Mget(kv, all_keys) == [i \in DOMAIN all_keys |-> IF all_keys[i] \in DOMAIN kv THEN kv[all_keys[i]] ELSE PyNone]

\* ReadValue that decodes nothing after a text that does not decode
ReadValueStopAtFailure(all_keys, values_str, i) ==
  IF \E j \in 1..i : ~IsNone(values_str[j]) /\ IsNone(deserialize_spvalue(values_str[j])) THEN PyNone
  ELSE IF IsNone(values_str[i]) THEN PyNone
  ELSE deserialize_spvalue(values_str[i])

\* one pass of the loop over zip(all_keys, values_str): what data[key] is set to
ReadValue(all_keys, values_str, i) ==
  IF IsNone(values_str[i]) THEN PyNone ELSE deserialize_spvalue(values_str[i])

\* ReadLoop that leaves out of data a key for which mget returned None
ReadLoopSkipMissing(all_keys, values_str) ==
  [key \in {all_keys[i] : i \in {j \in DOMAIN all_keys : ~IsNone(values_str[j])}} |->
     ReadValue(all_keys, values_str, CHOOSE i \in DOMAIN all_keys : all_keys[i] = key /\ \A j \in DOMAIN all_keys : all_keys[j] = key => j <= i)]

\* data after the loop: a key met twice keeps what its last pass set
ReadLoop(all_keys, values_str) ==
  [key \in {all_keys[i] : i \in DOMAIN all_keys} |->
     ReadValue(all_keys, values_str, CHOOSE i \in DOMAIN all_keys : all_keys[i] = key /\ \A j \in DOMAIN all_keys : all_keys[j] = key => j <= i)]

\* what read_all_data returns
ReadResult(data, all_keys) == [data |-> data, all_keys |-> all_keys]
\* return {}, []
EmptyResult == ReadResult(<<>>, <<>>)

\* no call of read_all_data in progress
NotReading == [pc |-> "idle", all_keys |-> <<>>, at_mget |-> <<>>, raised |-> FALSE, ret |-> EmptyResult]

\* ------------------------------------------------------------ inputs

\* the sequences over S of length at most n
SeqsUpTo(S, n) == UNION {[1..m -> S] : m \in 0..n}

Civil2024 == "2024-01-01T00:00:00"
UtcTime == PyDatetime(CivilSecs[Civil2024], TRUE, 0)
\* the same instant on a wall clock two hours east
EastTime == PyDatetime(CivilSecs["2024-01-01T02:00:00"], TRUE, 7200)
NaiveTime == PyDatetime(CivilSecs[Civil2024], FALSE, 0)

ScalarValues ==
  {BoolOrUnknown(b) : b \in {PyNone, PyBool(TRUE), PyBool(FALSE)}}
  \cup {IntOrUnknown(n) : n \in {PyNone, PyInt(0), PyInt(1)}}
  \cup {FloatOrUnknown(x) : x \in {PyNone, PyFloat(1), PyInf}}
  \cup {StringOrUnknown(t) : t \in {PyNone, PyStr(<<>>), PyStr(<<"abc">>), PyStr(<<"UNKNOWN">>)}}
  \cup {TimeOrUnknown(t) : t \in {PyNone, UtcTime, EastTime, NaiveTime}}

\* objects serialize_spvalue cannot encode: no variant, or a variant whose
\* payload json cannot hold
UnencodableValues == {PyObject, PyInt(1), PyList(<<BoolOrUnknown(PyBool(TRUE))>>), TimeOrUnknown(PyStr(<<"abc">>)), BoolOrUnknown(PyObject)}

Axes == {PyNone, PyFloat(1)}
Translations == {SPTranslation(x, y, z) : x \in Axes, y \in Axes, z \in Axes}
Rotations == {SPRotation(PyFloat(0), PyFloat(0), PyFloat(0), PyFloat(1)), SPRotation(PyFloat(0), PyFloat(0), PyFloat(0), PyNone), SPRotation(PyNone, PyNone, PyNone, PyNone)}
Geometries == {PyNone} \cup {SPTransform(t, r) : t \in {PyNone} \cup Translations, r \in {PyNone} \cup Rotations}
MetadataValues == {PyNone, MapOrUnknown(PyNone), MapOrUnknown(PyList(<<>>)), MapOrUnknown(PyList(<<PyTuple(StringOrUnknown(PyStr(<<"abc">>)), IntOrUnknown(PyInt(1)))>>)), MapOrUnknown(PyList(<<PyTuple(StringOrUnknown(PyStr(<<"abc">>)), PyObject)>>))}
FrameIds == {PyNone, PyStr(<<"world">>)}
TransformValues ==
  {TransformOrUnknown(PyNone)}
  \cup {TransformOrUnknown(SPTransformStamped(a, ts, p, c, g, m)) :
          a \in {PyNone, PyBool(TRUE)}, ts \in {PyNone, UtcTime, EastTime}, p \in FrameIds, c \in FrameIds,
          g \in Geometries, m \in MetadataValues}

\* what the elements of the input containers are drawn from
ElemValues == {BoolOrUnknown(PyBool(TRUE)), IntOrUnknown(PyNone), TimeOrUnknown(UtcTime), PyObject}
PairValues ==
  {PyTuple(key, v) : key \in {StringOrUnknown(PyStr(<<"abc">>)), PyObject}, v \in {IntOrUnknown(PyInt(1)), PyObject}}
  \cup {PyTuple(StringOrUnknown(PyStr(<<"abc">>)), IntOrUnknown(PyNone))}
FlatContainerValues ==
  {ArrayOrUnknown(PyNone), MapOrUnknown(PyNone)}
  \cup {ArrayOrUnknown(PyList(q)) : q \in SeqsUpTo(ElemValues, MaxLen)}
  \cup {MapOrUnknown(PyList(q)) : q \in SeqsUpTo(PairValues, MaxLen)}

\* the containers that hold c one level down
WrapValue(c) ==
  { ArrayOrUnknown(PyList(<<c>>)),
    ArrayOrUnknown(PyList(<<BoolOrUnknown(PyBool(TRUE)), c>>)),
    MapOrUnknown(PyList(<<PyTuple(StringOrUnknown(PyStr(<<"abc">>)), c)>>)),
    MapOrUnknown(PyList(<<PyTuple(c, IntOrUnknown(PyInt(1)))>>)),
    TransformOrUnknown(SPTransformStamped(PyNone, PyNone, PyNone, PyNone, PyNone, MapOrUnknown(PyList(<<PyTuple(StringOrUnknown(PyStr(<<"abc">>)), c)>>)))) }

\* the containers put inside other containers: empty or of one member
SeedValues ==
  {ArrayOrUnknown(PyNone), MapOrUnknown(PyNone)}
  \cup {ArrayOrUnknown(PyList(q)) : q \in SeqsUpTo(ElemValues, 1)}
  \cup {MapOrUnknown(PyList(q)) : q \in SeqsUpTo(PairValues, 1)}

RECURSIVE NestedValues(_)
\* the input containers that hold a seed exactly d levels down
NestedValues(d) ==
  IF d = 0 THEN SeedValues
  ELSE UNION {WrapValue(c) : c \in NestedValues(d - 1)}

ContainerValues == FlatContainerValues \cup UNION {NestedValues(d) : d \in 1..MaxDepth}

InputValues == ScalarValues \cup UnencodableValues \cup TransformValues \cup ContainerValues

\* ---- wire documents

StrDoc(tok) == PyStr(<<tok>>)
\* {"type": tag, "value": {key: payload}}
PayloadDoc(tag, key, payload) == WireDoc(tag, PyDict((key :> payload)))

TimeTexts == {PyStr(<<Civil2024>>), PyStr(<<Civil2024, "Z">>), PyStr(<<Civil2024, "+00:00">>), PyStr(<<Civil2024, "+02:00">>), PyStr(<<Civil2024, "Z", "Z">>)}
ScalarPayloads ==
  {PyNone, PyBool(TRUE), PyBool(FALSE), PyInt(0), PyInt(1), PyFloat(1), PyInf, PyNaN,
   PyStr(<<>>), PyStr(<<"abc">>), PyStr(<<"1">>), PyStr(<<"1.0">>), PyList(<<>>), PyList(<<PyInt(1)>>), EmptyDict}
  \cup TimeTexts

TypeFields == {StrDoc(t) : t \in Tags \cup {"Zed"}} \cup {PyInt(1), PyList(<<StrDoc("Bool")>>)}
\* `value` fields that are no payload object
BareValues == {StrDoc("UNKNOWN"), StrDoc("unknown"), PyInt(1), PyBool(TRUE), PyList(<<>>), EmptyDict}

ScalarDocs ==
  {PyDict(("type" :> t) @@ ("value" :> v)) : t \in TypeFields, v \in BareValues}
  \cup {PyDict(("type" :> t)) : t \in TypeFields}
  \cup {PyDict(("value" :> v)) : v \in BareValues}
  \cup {PayloadDoc(tag, key, p) : tag \in Tags \cup {"Zed"}, key \in {"Bool", "Float64", "Int64", "String", "Time"}, p \in ScalarPayloads}

\* documents that are no object at all
NonObjectDocs == {PyNone, PyInt(1), PyStr(<<"abc">>), PyList(<<>>), PyList(<<UnknownDoc("Bool")>>)}

GoodKeyDoc == PayloadDoc("String", "String", PyStr(<<"abc">>))
GoodValueDoc == PayloadDoc("Int64", "Int64", PyInt(1))
\* a sub-document that does not decode
MalformedDoc == PyDict(("type" :> StrDoc("Zed")) @@ ("value" :> PyInt(1)))
ElemDocs == {UnknownDoc("Bool"), GoodValueDoc, MalformedDoc}
PairDocs == {PyList(<<GoodKeyDoc, GoodValueDoc>>), PyList(<<UnknownDoc("Bool"), GoodKeyDoc>>), PyList(<<MalformedDoc, GoodValueDoc>>), PyList(<<GoodKeyDoc, MalformedDoc>>), PyList(<<GoodKeyDoc>>), PyList(<<GoodKeyDoc, UnknownDoc("Int64")>>)}
FlatContainerDocs ==
  {PayloadDoc("Array", "Array", PyList(q)) : q \in SeqsUpTo(ElemDocs, MaxLen)}
  \cup {PayloadDoc("Map", "Map", PyList(q)) : q \in SeqsUpTo(PairDocs, MaxLen)}
  \cup {PayloadDoc(tag, key, p) : tag \in {"Array", "Map", "Transform"}, key \in {"Array", "Map", "Transform"}, p \in {PyNone, PyInt(1), PyStr(<<"abc">>), EmptyDict, PyList(<<>>)}}

FullTranslationDoc == PyDict(("x" :> PyFloat(1)) @@ ("y" :> PyFloat(1)) @@ ("z" :> PyFloat(1)))
FullRotationDoc == PyDict(("x" :> PyFloat(0)) @@ ("y" :> PyFloat(0)) @@ ("z" :> PyFloat(0)) @@ ("w" :> PyFloat(1)))
\* the fields a Transform payload may hold, Absent for a field left out
Absent == [k |-> "absent"]
TransformFieldDocs ==
  [ active |-> {Absent, PyBool(TRUE), PyNone},
    time_stamp |-> {Absent, PyStr(<<Civil2024, "Z">>), PyStr(<<Civil2024, "+02:00">>), PyStr(<<"abc">>), PyInt(1), PyInf},
    parent_frame_id |-> {Absent, PyStr(<<"world">>), PyInt(1)},
    transform |-> {Absent, PyNone, PyStr(<<"abc">>), EmptyDict,
                   PyDict(("translation" :> FullTranslationDoc) @@ ("rotation" :> FullRotationDoc)),
                   PyDict(("translation" :> FullTranslationDoc)),
                   PyDict(("translation" :> PyDict(("x" :> PyNone) @@ ("y" :> PyFloat(1)) @@ ("z" :> PyFloat(1)))) @@ ("rotation" :> FullRotationDoc)),
                   PyDict(("translation" :> PyDict(("y" :> PyStr(<<"1.0">>)))) @@ ("rotation" :> PyDict(("w" :> PyInt(1))))),
                   PyDict(("translation" :> PyStr(<<"x">>)) @@ ("rotation" :> FullRotationDoc)),
                   PyDict(("translation" :> PyList(<<>>)) @@ ("rotation" :> PyInt(1)))},
    metadata |-> {Absent, UnknownDoc("Map"), PayloadDoc("Map", "Map", PyList(<<PyList(<<GoodKeyDoc, GoodValueDoc>>)>>)), UnknownDoc("Bool"), MalformedDoc, PyInt(1)} ]
\* the payload object holding the fields that are not Absent
FieldsDoc(fields) == PyDict([key \in {n \in DOMAIN fields : fields[n] # Absent} |-> fields[key]])
TransformDocs ==
  {PayloadDoc("Transform", "Transform", FieldsDoc(fields)) :
     fields \in [active : TransformFieldDocs.active, time_stamp : TransformFieldDocs.time_stamp,
                 parent_frame_id : TransformFieldDocs.parent_frame_id, transform : TransformFieldDocs.transform,
                 metadata : TransformFieldDocs.metadata]}

\* the container documents that hold c one level down
WrapDoc(c) ==
  { PayloadDoc("Array", "Array", PyList(<<c>>)),
    PayloadDoc("Array", "Array", PyList(<<GoodValueDoc, c>>)),
    PayloadDoc("Map", "Map", PyList(<<PyList(<<GoodKeyDoc, c>>)>>)),
    PayloadDoc("Map", "Map", PyList(<<PyList(<<c, GoodValueDoc>>)>>)),
    PayloadDoc("Transform", "Transform", PyDict(("metadata" :> PayloadDoc("Map", "Map", PyList(<<PyList(<<GoodKeyDoc, c>>)>>))))) }

\* the container documents put inside other documents
SeedDocs ==
  {UnknownDoc("Array"), PayloadDoc("Array", "Array", PyInt(1))}
  \cup {PayloadDoc("Array", "Array", PyList(q)) : q \in SeqsUpTo(ElemDocs, 1)}
  \cup {PayloadDoc("Map", "Map", PyList(q)) : q \in SeqsUpTo(PairDocs, 1)}

RECURSIVE NestedDocs(_)
\* the container documents that hold a seed exactly d levels down
NestedDocs(d) ==
  IF d = 0 THEN SeedDocs
  ELSE UNION {WrapDoc(c) : c \in NestedDocs(d - 1)}

ContainerDocs == FlatContainerDocs \cup UNION {NestedDocs(d) : d \in 1..MaxDepth}

InputTexts == {BadText} \cup {JsonText(doc) : doc \in NonObjectDocs \cup ScalarDocs \cup TransformDocs \cup ContainerDocs}

\* ---- text typed into a value field

\* the spellings of the sentinel
UnknownSpellings == {"UNKNOWN", "unknown", "Unknown"}
\* the spellings of the Bool literals
TrueSpellings == {"true", "TRUE", "True", "t", "T", "yes", "YES", "y", "Y", "1"}
FalseSpellings == {"false", "FALSE", "False", "f", "F", "no", "NO", "n", "N", "0"}
\* the typed texts before padding: one word, a time, nothing, two words
CoreTexts ==
  {<<w>> : w \in UnknownSpellings \cup TrueSpellings \cup FalseSpellings \cup {"abc", "1.0", "inf", Civil2024}}
  \cup {<<>>, <<Civil2024, "Z">>, <<Civil2024, "+02:00">>, <<"true", " ", "true">>, <<"abc", " ", "UNKNOWN">>}
Paddings == {<<>>, <<" ">>}
TypedTexts == {lead \o core \o trail : lead \in Paddings, core \in CoreTexts, trail \in Paddings}
\* the classes a caller passes as target_type: the eight variants, no class,
\* and a dataclass that is no variant
TargetTypes == VariantClasses \cup {"None", "SPTransform"}
\* one call of parse_input_to_spvalue to be made
ParseInputs == {[k |-> "input", input_str |-> PyStr(t), target_type |-> c] : t \in TypedTexts, c \in TargetTypes}

\* ------------------------------------------------------------ the calls

\* hist: the calls made so far, each with its argument and its result
Init ==
  /\ cur \in InputValues \cup InputTexts \cup ParseInputs
  /\ hist = <<>>
  /\ items_to_set = <<>>
  /\ store = <<>>
  /\ shown = NothingShown
  /\ press = NoPress
  /\ reading = NotReading

\* serialize_spvalue applied to the object at hand
Serialize ==
  /\ Len(hist) < MaxSteps
  /\ cur.k \notin {"text", "None", "raise", "input"}
  /\ cur' = serialize_spvalue(cur)
  /\ hist' = Append(hist, [op |-> "serialize", arg |-> cur, ret |-> cur'])
  /\ UNCHANGED <<items_to_set, store, shown, press, reading>>

\* deserialize_spvalue applied to the text at hand
Deserialize ==
  /\ Len(hist) < MaxSteps
  /\ cur.k = "text"
  /\ cur' = deserialize_spvalue(cur)
  /\ hist' = Append(hist, [op |-> "deserialize", arg |-> cur, ret |-> cur'])
  /\ UNCHANGED <<items_to_set, store, shown, press, reading>>

\* parse_input_to_spvalue applied to the typed text at hand
ParseInput ==
  /\ Len(hist) < MaxSteps
  /\ cur.k = "input"
  /\ cur' = parse_input_to_spvalue(cur.input_str, cur.target_type)
  /\ hist' = Append(hist, [op |-> "parse", arg |-> cur, ret |-> cur'])
  /\ UNCHANGED <<items_to_set, store, shown, press, reading>>

Next == Serialize \/ Deserialize \/ ParseInput

Spec == Init /\ [][Next]_vars

\* ------------------------------------------------------------ the Set State tab

\* the keys the server holds, and the text of each: a Bool, text that does not
\* decode, and a Map
InitialStore ==
  ("flag" :> JsonText(PayloadDoc("Bool", "Bool", PyBool(FALSE))))
  @@ ("junk" :> BadText)
  @@ ("table" :> JsonText(UnknownDoc("Map")))
\* the keys the server holds when the Set State tab is used: those, and an
\* Array
SetterStore == InitialStore @@ ("list" :> JsonText(UnknownDoc("Array")))
\* the texts typed into a value field
EnteredTexts == {<<"true">>, <<"abc">>, <<"UNKNOWN">>}
\* the types chosen in the selectbox of a pair's value or of an item
ChosenTypes == {"String", "Int64"}

\* the page after its first script run: the default row, rendered
SetterInit ==
  /\ cur = PyNone
  /\ hist = <<>>
  /\ store = SetterStore
  /\ items_to_set = Render(<<>>, DecodedData(store))
  /\ shown = NothingShown
  /\ press = NoPress
  /\ reading = NotReading

\* a key chosen in the selectbox of row i: the row is reset and the script
\* reruns, reading the server anew
SelectKey(i, selected_key) ==
  /\ i \in DOMAIN items_to_set
  /\ selected_key \in {""} \cup DOMAIN store
  /\ items_to_set[i].key # selected_key
  /\ \E current_data \in {DecodedData(store)} :
       items_to_set' = Render(
         [items_to_set EXCEPT ![i] = Item(@.id, selected_key, PyStr(<<>>), @.current_type_name, <<>>, <<>>)],
         current_data)
  /\ shown' = NothingShown
  /\ press' = NoPress
  /\ UNCHANGED <<cur, hist, store, reading>>

\* text typed into the value field of row i, a row that is no Map and no Array
EnterValue(i, text) ==
  /\ i \in DOMAIN items_to_set
  /\ items_to_set[i].value_str # PyStr(text)
  /\ \E current_data \in {DecodedData(store)} :
       /\ TargetTypeName(current_data, items_to_set[i].key) \notin {"MapOrUnknown", "ArrayOrUnknown"}
       /\ items_to_set' = Render([items_to_set EXCEPT ![i].value_str = PyStr(text)], current_data)
  /\ shown' = NothingShown
  /\ press' = NoPress
  /\ UNCHANGED <<cur, hist, store, reading>>

\* "Add Another Variable": a row with the next id, and the script reruns
AddVariable ==
  /\ Len(items_to_set) < MaxRows
  /\ new_id(items_to_set) <= MaxId
  /\ \E current_data \in {DecodedData(store)} :
       items_to_set' = Render(Append(items_to_set, NewItem(new_id(items_to_set))), current_data)
  /\ shown' = NothingShown
  /\ press' = NoPress
  /\ UNCHANGED <<cur, hist, store, reading>>

\* "Remove Variable" of row i: the row is dropped and the script reruns
RemoveVariable(i) ==
  /\ i \in DOMAIN items_to_set
  /\ \E current_data \in {DecodedData(store)} :
       items_to_set' = Render(DeleteAt(items_to_set, i), current_data)
  /\ shown' = NothingShown
  /\ press' = NoPress
  /\ UNCHANGED <<cur, hist, store, reading>>

\* "Add Map Pair" of row i, a Map: a pair with the next id, and the script
\* reruns
AddMapPair(i) ==
  /\ i \in DOMAIN items_to_set
  /\ Len(items_to_set[i].map_pairs) < MaxPairs
  /\ new_pair_id(items_to_set[i].map_pairs) <= MaxId
  /\ \E current_data \in {DecodedData(store)} :
       /\ TargetTypeName(current_data, items_to_set[i].key) = "MapOrUnknown"
       /\ items_to_set' = Render(
            [items_to_set EXCEPT ![i].map_pairs = Append(@, NewPair(new_pair_id(@)))], current_data)
  /\ shown' = NothingShown
  /\ press' = NoPress
  /\ UNCHANGED <<cur, hist, store, reading>>

\* a type chosen in the "Value Type" selectbox of the pair at pair_idx of row i
SelectValueType(i, pair_idx, value_type) ==
  /\ i \in DOMAIN items_to_set
  /\ pair_idx \in DOMAIN items_to_set[i].map_pairs
  /\ items_to_set[i].map_pairs[pair_idx].value_type # value_type
  /\ \E current_data \in {DecodedData(store)} :
       /\ TargetTypeName(current_data, items_to_set[i].key) = "MapOrUnknown"
       /\ items_to_set' = Render([items_to_set EXCEPT ![i].map_pairs[pair_idx].value_type = value_type], current_data)
  /\ shown' = NothingShown
  /\ press' = NoPress
  /\ UNCHANGED <<cur, hist, store, reading>>

\* "X" of the pair at pair_idx of row i: the pair is deleted and the script
\* reruns
RemoveMapPair(i, pair_idx) ==
  /\ i \in DOMAIN items_to_set
  /\ pair_idx \in DOMAIN items_to_set[i].map_pairs
  /\ \E current_data \in {DecodedData(store)} :
       /\ TargetTypeName(current_data, items_to_set[i].key) = "MapOrUnknown"
       /\ items_to_set' = Render([items_to_set EXCEPT ![i].map_pairs = DeleteAt(@, pair_idx)], current_data)
  /\ shown' = NothingShown
  /\ press' = NoPress
  /\ UNCHANGED <<cur, hist, store, reading>>

\* "Add Array Item" of row i, an Array: an item with the next id, and the
\* script reruns
AddArrayItem(i) ==
  /\ i \in DOMAIN items_to_set
  /\ Len(items_to_set[i].array_items) < MaxPairs
  /\ new_item_id(items_to_set[i].array_items) <= MaxId
  /\ \E current_data \in {DecodedData(store)} :
       /\ TargetTypeName(current_data, items_to_set[i].key) = "ArrayOrUnknown"
       /\ items_to_set' = Render(
            [items_to_set EXCEPT ![i].array_items = Append(@, NewArrayItem(new_item_id(@)))], current_data)
  /\ shown' = NothingShown
  /\ press' = NoPress
  /\ UNCHANGED <<cur, hist, store, reading>>

\* a type chosen in the "Item Type" selectbox of the item at item_idx of row i
SelectItemType(i, item_idx, item_type) ==
  /\ i \in DOMAIN items_to_set
  /\ item_idx \in DOMAIN items_to_set[i].array_items
  /\ items_to_set[i].array_items[item_idx].item_type # item_type
  /\ \E current_data \in {DecodedData(store)} :
       /\ TargetTypeName(current_data, items_to_set[i].key) = "ArrayOrUnknown"
       /\ items_to_set' = Render([items_to_set EXCEPT ![i].array_items[item_idx].item_type = item_type], current_data)
  /\ shown' = NothingShown
  /\ press' = NoPress
  /\ UNCHANGED <<cur, hist, store, reading>>

\* "X" of the item at item_idx of row i: the item is deleted and the script
\* reruns
RemoveArrayItem(i, item_idx) ==
  /\ i \in DOMAIN items_to_set
  /\ item_idx \in DOMAIN items_to_set[i].array_items
  /\ \E current_data \in {DecodedData(store)} :
       /\ TargetTypeName(current_data, items_to_set[i].key) = "ArrayOrUnknown"
       /\ items_to_set' = Render([items_to_set EXCEPT ![i].array_items = DeleteAt(@, item_idx)], current_data)
  /\ shown' = NothingShown
  /\ press' = NoPress
  /\ UNCHANGED <<cur, hist, store, reading>>

\* "Set Configured Values": the rows are parsed and serialized, the texts are
\* sent in one pipeline, and the errors are displayed.  The server applies
\* the SETs of the keys in `applied`; execute() returns when it applied all
\* of them and raises a RedisError when it did not, and the text of that
\* exception names the first command refused or no command at all.  hist
\* logs the call of execute(): how many SETs were queued, and what it
\* returned or raised.
SetConfiguredValues ==
  \E items \in {Render(items_to_set, DecodedData(store))} :
  \E done \in {ProcessItems(items)} :
  \E keys \in {{done.keys_to_set[i][1] : i \in DOMAIN done.keys_to_set}} :
  \E displayed \in {ErrorDisplay(done.errors, done.error_count)} :
     /\ items_to_set' = items
     /\ IF done.keys_to_set = <<>>
        THEN /\ store' = store
             /\ hist' = hist
             /\ press' = [NoPress EXCEPT !.pressed = TRUE]
             /\ shown' = [warnings |-> IF done.errors = <<>> THEN <<"No valid variable configurations to set.">> ELSE <<>>,
                          errors |-> displayed]
        ELSE /\ Len(hist) < MaxPresses
             /\ \E applied \in SUBSET keys : \E named \in BOOLEAN :
                  \E results \in {IF applied # keys THEN Raise("RedisError")
                                  ELSE PyList([i \in DOMAIN done.keys_to_set |-> PyBool(TRUE)])} :
                    /\ store' = StoreAfter(store, done.keys_to_set, applied)
                    /\ hist' = Append(hist, [op |-> "execute", arg |-> PyInt(Len(done.keys_to_set)), ret |-> results])
                    /\ press' = [pressed |-> TRUE, commands |-> done.keys_to_set, applied |-> applied,
                                 results |-> results,
                                 cache_cleared |-> ~IsRaise(results) /\ success_count > 0,
                                 rerun |-> ~IsRaise(results) /\ success_count > 0]
                    /\ shown' = [warnings |-> <<>>,
                                 errors |-> (IF IsRaise(results)
                                             THEN <<Message("A Redis error occurred during the SET operation",
                                                            IF named THEN FirstRefused(done.keys_to_set, applied) ELSE "", 0)>>
                                             ELSE <<>>) \o displayed]
     /\ UNCHANGED <<cur, reading>>

\* the form is filled in and submitted: rows, pairs and items are added and
\* edited, and the set button is pressed
SetterNext ==
  \/ \E i \in 1..MaxRows : \E selected_key \in {""} \cup DOMAIN store : SelectKey(i, selected_key)
  \/ \E i \in 1..MaxRows : \E text \in EnteredTexts : EnterValue(i, text)
  \/ AddVariable
  \/ \E i \in 1..MaxRows : AddMapPair(i)
  \/ \E i \in 1..MaxRows : \E pair_idx \in 1..MaxPairs : \E value_type \in ChosenTypes : SelectValueType(i, pair_idx, value_type)
  \/ \E i \in 1..MaxRows : AddArrayItem(i)
  \/ \E i \in 1..MaxRows : \E item_idx \in 1..MaxPairs : \E item_type \in ChosenTypes : SelectItemType(i, item_idx, item_type)
  \/ SetConfiguredValues

SetterSpec == SetterInit /\ [][SetterNext]_vars

\* the form is edited and not submitted: rows, pairs and items are added,
\* edited and removed
FormNext ==
  \/ \E i \in 1..MaxRows : \E selected_key \in {""} \cup DOMAIN store : SelectKey(i, selected_key)
  \/ \E i \in 1..MaxRows : \E text \in EnteredTexts : EnterValue(i, text)
  \/ AddVariable
  \/ \E i \in 1..MaxRows : RemoveVariable(i)
  \/ \E i \in 1..MaxRows : AddMapPair(i)
  \/ \E i \in 1..MaxRows : \E pair_idx \in 1..MaxPairs : \E value_type \in ChosenTypes : SelectValueType(i, pair_idx, value_type)
  \/ \E i \in 1..MaxRows : \E pair_idx \in 1..MaxPairs : RemoveMapPair(i, pair_idx)
  \/ \E i \in 1..MaxRows : AddArrayItem(i)
  \/ \E i \in 1..MaxRows : \E item_idx \in 1..MaxPairs : \E item_type \in ChosenTypes : SelectItemType(i, item_idx, item_type)
  \/ \E i \in 1..MaxRows : \E item_idx \in 1..MaxPairs : RemoveArrayItem(i, item_idx)

FormSpec == SetterInit /\ [][FormNext]_vars

\* ------------------------------------------------------------ the data read

\* the texts another client writes: a Bool, and text that does not decode
ClientTexts == {JsonText(PayloadDoc("Bool", "Bool", PyBool(TRUE))), BadText}

ReaderInit ==
  /\ cur = PyNone
  /\ hist = <<>>
  /\ items_to_set = <<>>
  /\ store = InitialStore
  /\ shown = NothingShown
  /\ press = NoPress
  /\ reading = NotReading

\* the key enumeration: every key the server holds, once or more than once
\* as SCAN may return it; with no key the function returns {}, []
ScanKeys(repeated) ==
  /\ reading.pc = "idle"
  /\ repeated \subseteq DOMAIN store
  /\ \E all_keys \in {SortedKeys([key \in DOMAIN store |-> IF key \in repeated THEN 2 ELSE 1])} :
       reading' = IF all_keys = <<>>
                  THEN [NotReading EXCEPT !.pc = "done"]
                  ELSE [NotReading EXCEPT !.pc = "scanned", !.all_keys = all_keys]
  /\ shown' = NothingShown
  /\ UNCHANGED <<cur, hist, items_to_set, store, press>>

\* the batch read and the loop over what it returned
MgetValues ==
  /\ reading.pc = "scanned"
  /\ \E values_str \in {Mget(store, reading.all_keys)} :
       reading' = [reading EXCEPT !.pc = "done", !.at_mget = store,
                                  !.ret = ReadResult(ReadLoop(reading.all_keys, values_str), reading.all_keys)]
  /\ UNCHANGED <<cur, hist, items_to_set, store, shown, press>>

\* the server or the connection fails in scan_iter or in mget: the except
\* clauses show the error and return {}, []
StoreRaises ==
  /\ reading.pc \in {"idle", "scanned"}
  /\ reading' = [NotReading EXCEPT !.pc = "done", !.all_keys = reading.all_keys, !.raised = TRUE]
  /\ shown' = [warnings |-> <<>>, errors |-> <<Message("Error retrieving data from Redis", "", 0)>>]
  /\ UNCHANGED <<cur, hist, items_to_set, store, press>>

\* the script runs again: the next call of read_all_data
ScriptRerun ==
  /\ reading.pc = "done"
  /\ reading' = NotReading
  /\ UNCHANGED <<cur, hist, items_to_set, store, shown, press>>

\* another client sets a key
ClientSet(key, text) ==
  /\ (IF key \in DOMAIN store THEN store[key] # text ELSE TRUE)
  /\ store' = [n \in DOMAIN store \cup {key} |-> IF n = key THEN text ELSE store[n]]
  /\ UNCHANGED <<cur, hist, items_to_set, shown, press, reading>>

\* another client deletes a key
ClientDel(key) ==
  /\ key \in DOMAIN store
  /\ store' = [n \in DOMAIN store \ {key} |-> store[n]]
  /\ UNCHANGED <<cur, hist, items_to_set, shown, press, reading>>

ReaderNext ==
  \/ \E repeated \in SUBSET {KeyOrder[i] : i \in DOMAIN KeyOrder} : ScanKeys(repeated)
  \/ MgetValues
  \/ StoreRaises
  \/ ScriptRerun
  \/ \E key \in {KeyOrder[i] : i \in DOMAIN KeyOrder} : \E text \in ClientTexts : ClientSet(key, text)
  \/ \E key \in {KeyOrder[i] : i \in DOMAIN KeyOrder} : ClientDel(key)

ReaderSpec == ReaderInit /\ [][ReaderNext]_vars

\* ------------------------------------------------------------ properties

\* the calls of hist made to one function
CallsOf(op) == {i \in DOMAIN hist : hist[i].op = op}
\* call i is a serialize whose text was then deserialized
RoundTripAt(i) == i \in CallsOf("serialize") /\ i + 1 \in CallsOf("deserialize")

RECURSIVE IsValue(_)
\* v is a Value built as the dataclasses declare it: each payload absent or of
\* the declared type, containers of Values, Transform sub-fields absent or typed
IsValue(v) ==
  CASE v.k = "BoolOrUnknown" -> v.value.k \in {"None", "bool"}
    [] v.k = "IntOrUnknown" -> v.value.k \in {"None", "int"}
    [] v.k = "FloatOrUnknown" -> v.value.k = "None" \/ (v.value.k = "float" /\ v.value.sp # "nan")
    [] v.k = "StringOrUnknown" -> v.value.k \in {"None", "str"}
    [] v.k = "TimeOrUnknown" -> v.value.k \in {"None", "datetime"}
    [] v.k = "ArrayOrUnknown" -> v.value.k = "None" \/ (v.value.k = "list" /\ \A i \in DOMAIN v.value.items : IsValue(v.value.items[i]))
    [] v.k = "MapOrUnknown" ->
         v.value.k = "None" \/ (v.value.k = "list" /\ \A i \in DOMAIN v.value.items :
            v.value.items[i].k = "tuple" /\ IsValue(v.value.items[i].items[1]) /\ IsValue(v.value.items[i].items[2]))
    [] v.k = "TransformOrUnknown" ->
         v.value.k = "None" \/
         ( /\ v.value.k = "SPTransformStamped"
           /\ v.value.active.k \in {"None", "bool"}
           /\ v.value.time_stamp.k \in {"None", "datetime"}
           /\ v.value.parent_frame_id.k \in {"None", "str"}
           /\ v.value.child_frame_id.k \in {"None", "str"}
           /\ v.value.transform.k \in {"None", "SPTransform"}
           /\ (v.value.transform.k = "SPTransform" =>
                 /\ v.value.transform.translation.k \in {"None", "SPTranslation"}
                 /\ v.value.transform.rotation.k \in {"None", "SPRotation"}
                 /\ \A g \in {v.value.transform.translation, v.value.transform.rotation} :
                      \A a \in DOMAIN g \ {"k"} : g[a].k \in {"None", "float"})
           /\ (v.value.metadata.k = "None" \/ (v.value.metadata.k = "MapOrUnknown" /\ IsValue(v.value.metadata))) )
    [] OTHER -> FALSE

RECURSIVE TimesUtc(_)
\* every Time payload and every time_stamp inside v is aware with offset zero
TimesUtc(v) ==
  CASE v.k = "datetime" -> v.aware /\ v.off = 0
    [] v.k \in {"list", "tuple"} -> \A i \in DOMAIN v.items : TimesUtc(v.items[i])
    [] v.k \in {"TimeOrUnknown", "ArrayOrUnknown", "MapOrUnknown", "TransformOrUnknown"} -> TimesUtc(v.value)
    [] v.k = "SPTransformStamped" -> TimesUtc(v.time_stamp) /\ TimesUtc(v.metadata)
    [] OTHER -> TRUE

\* C1: round trip: every constructible Value whose Time sub-values are in UTC
\* is encoded to a text that decodes to a structurally equal Value.
C1_RoundTrip ==
  \A i \in DOMAIN hist :
    (RoundTripAt(i) /\ IsValue(hist[i].arg) /\ TimesUtc(hist[i].arg))
      => (hist[i].ret.k = "text" /\ PyEq(hist[i + 1].ret, hist[i].arg))

\* C2: unknown idempotence: for each of the eight Tags the variant with an
\* absent payload encodes to {type: Tag, value: "UNKNOWN"}, and that document
\* decodes to the same variant with an absent payload.
C2_UnknownIdempotence ==
  \A i \in DOMAIN hist : \A tag \in Tags :
    LET unknown == [k |-> ClassOfTag[tag], value |-> PyNone]
        doc == [k |-> "dict", f |-> [type |-> [k |-> "str", s |-> <<tag>>], value |-> [k |-> "str", s |-> <<"UNKNOWN">>]]]
    IN /\ (hist[i].op = "serialize" /\ hist[i].arg = unknown) => hist[i].ret = [k |-> "text", doc |-> doc]
       /\ (hist[i].op = "deserialize" /\ hist[i].arg = [k |-> "text", doc |-> doc]) => hist[i].ret = unknown

\* C2 witness: each unknown variant has made the round trip.
C2_Witness ==
  /\ Len(hist) >= 2
  /\ RoundTripAt(1)
  /\ hist[1].arg = TransformOrUnknown(PyNone)
  /\ hist[2].ret = TransformOrUnknown(PyNone)

\* the document of a deserialize call's text when it is a JSON object
IsObjectText(t) == t.k = "text" /\ t.doc.k = "dict"
\* doc's `type` is a one-token str; DocTag is that token
HasTypeText(doc) == DictGet(doc, "type").k = "str" /\ Len(DictGet(doc, "type").s) = 1
DocTag(doc) == DictGet(doc, "type").s[1]
\* doc's `value` is an object holding the key `key`
HasPayload(doc, key) == DictGet(doc, "value").k = "dict" /\ key \in DOMAIN DictGet(doc, "value").f
PayloadOf(doc, key) == DictGet(doc, "value").f[key]
\* doc's `value` is neither "UNKNOWN" nor an object holding the key of doc's Tag
ShapeMismatch(doc) ==
  /\ HasTypeText(doc)
  /\ DictGet(doc, "value") # [k |-> "str", s |-> <<"UNKNOWN">>]
  /\ ~HasPayload(doc, DocTag(doc))

\* C3 as stated: a document whose `value` is neither "UNKNOWN" nor an object
\* holding the key of its own Tag is reported as a decode failure.
C3_ShapeMismatchFails ==
  \A i \in CallsOf("deserialize") :
    (IsObjectText(hist[i].arg) /\ ShapeMismatch(hist[i].arg.doc)) => hist[i].ret = PyNone

\* C3 amended: such a document decodes to the unknown variant of its Tag when
\* `type` is one of the eight Tags, and is a decode failure only when it is not.
C3_ShapeMismatchUnknown ==
  \A i \in CallsOf("deserialize") :
    (IsObjectText(hist[i].arg) /\ ShapeMismatch(hist[i].arg.doc)) =>
      LET tag == DocTag(hist[i].arg.doc)
      IN IF tag \in Tags THEN hist[i].ret = [k |-> ClassOfTag[tag], value |-> PyNone]
         ELSE hist[i].ret = PyNone

\* C3 witness: {"type": "Bool", "value": 1} was decoded to the unknown Bool.
C3_Witness ==
  \E i \in CallsOf("deserialize") :
    /\ IsObjectText(hist[i].arg) /\ ShapeMismatch(hist[i].arg.doc)
    /\ DocTag(hist[i].arg.doc) = "Bool"
    /\ DictGet(hist[i].arg.doc, "value") = PyInt(1)
    /\ hist[i].ret = BoolOrUnknown(PyNone)

\* the sub-document e decodes on its own
Decodes(e) == ~IsNone(deserialize_spvalue(JsonText(e)))
\* C4: lossy array decode: an Array document whose payload is a list decodes
\* to the Array of exactly the elements that decode on their own, each decoded,
\* in their original order; the elements that fail are dropped.
C4_LossyArrayDecode ==
  \A i \in CallsOf("deserialize") :
    LET t == hist[i].arg
    IN (IsObjectText(t) /\ HasTypeText(t.doc) /\ DocTag(t.doc) = "Array" /\ HasPayload(t.doc, "Array")
        /\ PayloadOf(t.doc, "Array").k = "list") =>
         LET kept == SelectSeq(PayloadOf(t.doc, "Array").items, Decodes)
         IN /\ hist[i].ret.k = "ArrayOrUnknown"
            /\ hist[i].ret.value.k = "list"
            /\ Len(hist[i].ret.value.items) = Len(kept)
            /\ \A j \in DOMAIN kept : hist[i].ret.value.items[j] = deserialize_spvalue(JsonText(kept[j]))

\* C4 witness: three items, the second malformed, decoded to items 1 and 3.
C4_Witness ==
  \E i \in CallsOf("deserialize") :
    LET t == hist[i].arg
    IN /\ IsObjectText(t) /\ HasTypeText(t.doc) /\ DocTag(t.doc) = "Array" /\ HasPayload(t.doc, "Array")
       /\ PayloadOf(t.doc, "Array").k = "list"
       /\ LET items == PayloadOf(t.doc, "Array").items
          IN /\ Len(items) = 3
             /\ Decodes(items[1]) /\ ~Decodes(items[2]) /\ Decodes(items[3])
             /\ items[1] # items[3]
             /\ hist[i].ret.value.k = "list"
             /\ Len(hist[i].ret.value.items) = 2

\* the pair document p is a 2-element list whose two sides both decode
PairDecodes(p) == p.k = "list" /\ Len(p.items) = 2 /\ Decodes(p.items[1]) /\ Decodes(p.items[2])

\* C5: map pair drop: a Map document whose payload is a list decodes to the
\* Map of exactly the pairs that are 2-element lists with both sides decoding,
\* each as (key, value), in their original order; no half pair is kept.
C5_MapPairDrop ==
  \A i \in CallsOf("deserialize") :
    LET t == hist[i].arg
    IN (IsObjectText(t) /\ HasTypeText(t.doc) /\ DocTag(t.doc) = "Map" /\ HasPayload(t.doc, "Map")
        /\ PayloadOf(t.doc, "Map").k = "list") =>
         LET kept == SelectSeq(PayloadOf(t.doc, "Map").items, PairDecodes)
         IN /\ hist[i].ret.k = "MapOrUnknown"
            /\ hist[i].ret.value.k = "list"
            /\ Len(hist[i].ret.value.items) = Len(kept)
            /\ \A j \in DOMAIN kept :
                 /\ hist[i].ret.value.items[j].k = "tuple"
                 /\ hist[i].ret.value.items[j].items =
                      <<deserialize_spvalue(JsonText(kept[j].items[1])), deserialize_spvalue(JsonText(kept[j].items[2]))>>

\* C5 witness: three pairs, the key of the second malformed, decoded to pairs
\* 1 and 3.
C5_Witness ==
  \E i \in CallsOf("deserialize") :
    LET t == hist[i].arg
    IN /\ IsObjectText(t) /\ HasTypeText(t.doc) /\ DocTag(t.doc) = "Map" /\ HasPayload(t.doc, "Map")
       /\ PayloadOf(t.doc, "Map").k = "list"
       /\ LET pairs == PayloadOf(t.doc, "Map").items
          IN /\ Len(pairs) = 3
             /\ PairDecodes(pairs[1]) /\ PairDecodes(pairs[3]) /\ pairs[1] # pairs[3]
             /\ pairs[2].k = "list" /\ Len(pairs[2].items) = 2
             /\ ~Decodes(pairs[2].items[1]) /\ Decodes(pairs[2].items[2])
             /\ hist[i].ret.value.k = "list"
             /\ Len(hist[i].ret.value.items) = 2

\* the present Array or Map v has a direct child that does not encode
HasFailingChild(v) ==
  /\ v.k \in {"ArrayOrUnknown", "MapOrUnknown"}
  /\ v.value.k = "list"
  /\ \E j \in DOMAIN v.value.items :
       IF v.k = "ArrayOrUnknown" THEN IsNone(serialize_spvalue(v.value.items[j]))
       ELSE /\ v.value.items[j].k = "tuple"
            /\ \E side \in 1..2 : IsNone(serialize_spvalue(v.value.items[j].items[side]))

\* C6: fail-fast encode: a present Array with an element that does not encode,
\* or a present Map with a pair one side of which does not encode, does not
\* encode itself: no document is produced.
C6_FailFastEncode ==
  \A i \in CallsOf("serialize") : HasFailingChild(hist[i].arg) => hist[i].ret = PyNone

\* C6 witness: an Array whose only failing element is a nested Array that
\* holds an unencodable element was refused.
C6_Witness ==
  \E i \in CallsOf("serialize") :
    /\ HasFailingChild(hist[i].arg)
    /\ hist[i].arg.k = "ArrayOrUnknown"
    /\ \E j \in DOMAIN hist[i].arg.value.items : HasFailingChild(hist[i].arg.value.items[j])
    /\ hist[i].ret = PyNone

\* the emitted time text s ends with Z and holds no numeric offset
EndsWithZ(s) == s.k = "str" /\ Len(s.s) > 0 /\ s.s[Len(s.s)] = "Z" /\ \A j \in DOMAIN s.s : s.s[j] \notin DOMAIN OffsetSecs

\* C7: every present Time payload and every present time_stamp is emitted as
\* a string that ends with Z and carries no numeric offset.
C7_TimeEndsWithZ ==
  \A i \in CallsOf("serialize") :
    LET v == hist[i].arg
        out == hist[i].ret
    IN /\ (v.k = "TimeOrUnknown" /\ v.value.k = "datetime" /\ out.k = "text")
            => EndsWithZ(out.doc.f["value"].f["Time"])
       /\ (v.k = "TransformOrUnknown" /\ v.value.k = "SPTransformStamped" /\ v.value.time_stamp.k = "datetime" /\ out.k = "text")
            => EndsWithZ(out.doc.f["value"].f["Transform"].f["time_stamp"])

TimeDoc(s) == [k |-> "dict", f |-> [type |-> [k |-> "str", s |-> <<"Time">>], value |-> [k |-> "dict", f |-> [Time |-> [k |-> "str", s |-> s]]]]]
\* the three spellings of midnight, 1 January 2024, UTC
MidnightTexts == {<<"2024-01-01T00:00:00", "Z">>, <<"2024-01-01T00:00:00", "+00:00">>, <<"2024-01-01T00:00:00">>}

\* C8: time normalization: the payloads "2024-01-01T00:00:00Z",
\* "2024-01-01T00:00:00+00:00" and the naive "2024-01-01T00:00:00" decode to
\* equal Time values, the instant 2024-01-01T00:00:00 UTC, and each of them
\* encodes to exactly "2024-01-01T00:00:00Z".
C8_TimeNormalization ==
  \A i \in CallsOf("deserialize") :
    (hist[i].arg.k = "text" /\ \E s \in MidnightTexts : hist[i].arg.doc = TimeDoc(s)) =>
      /\ hist[i].ret.k = "TimeOrUnknown"
      /\ hist[i].ret.value.k = "datetime"
      /\ hist[i].ret.value.aware
      /\ hist[i].ret.value.civil - hist[i].ret.value.off = 1704067200
      /\ \A s \in MidnightTexts : PyEq(hist[i].ret, deserialize_spvalue([k |-> "text", doc |-> TimeDoc(s)]))
      /\ (i + 1 \in CallsOf("serialize") =>
            hist[i + 1].ret = [k |-> "text", doc |-> TimeDoc(<<"2024-01-01T00:00:00", "Z">>)])

\* C8 witness: the naive spelling was decoded and the result encoded.
C8_Witness ==
  /\ Len(hist) >= 2
  /\ hist[1].op = "deserialize"
  /\ hist[1].arg.doc = TimeDoc(<<"2024-01-01T00:00:00">>)
  /\ hist[2].op = "serialize"
  /\ hist[2].ret.k = "text"

\* the payload p cannot be converted to the primitive of the scalar Tag: int()
\* or float() raises, or the Time payload is no ISO text the parser reads and
\* no number fromtimestamp accepts (bool() and str() accept every object)
NotConvertible(tag, p) ==
  CASE tag = "Int64" -> IsRaise(IntOf(p))
    [] tag = "Float64" -> IsRaise(FloatOf(p))
    [] tag = "Time" -> IF p.k = "str" THEN IsRaise(FromIsoFormat(IF EndsWith(p.s, "Z") THEN ReplaceLast(p.s, "+00:00") ELSE p.s))
                       ELSE IF IsNumber(p) THEN IsRaise(FromTimestamp(p))
                       ELSE TRUE
    [] OTHER -> FALSE

\* C9: a scalar document whose payload under its Tag key cannot be converted
\* decodes to that variant with an absent payload: never a decode failure,
\* never a present payload.
C9_ScalarDegradesToUnknown ==
  \A i \in CallsOf("deserialize") :
    LET t == hist[i].arg
    IN (IsObjectText(t) /\ HasTypeText(t.doc) /\ DocTag(t.doc) \in {"Bool", "Int64", "Float64", "String", "Time"}
        /\ HasPayload(t.doc, DocTag(t.doc)) /\ ~IsNone(PayloadOf(t.doc, DocTag(t.doc)))
        /\ NotConvertible(DocTag(t.doc), PayloadOf(t.doc, DocTag(t.doc))))
       => hist[i].ret = [k |-> ClassOfTag[DocTag(t.doc)], value |-> PyNone]

\* C10: deserialize_spvalue returns one of the eight variants or the failure
\* result for every text: no exception leaves it.
C10_DecodeNeverRaises ==
  \A i \in CallsOf("deserialize") : hist[i].ret.k \in VariantClasses \cup {"None"}

\* C10 witness: text that is not JSON, and JSON that is no object, were given
\* to the decoder and the failure result came back.
C10_Witness ==
  \E i \in CallsOf("deserialize") :
    /\ hist[i].arg.doc.k \in {"syntaxerror", "list", "int"}
    /\ hist[i].ret = PyNone

\* the payload object of a Transform document given to the decoder
IsTransformText(t) ==
  /\ IsObjectText(t) /\ HasTypeText(t.doc) /\ DocTag(t.doc) = "Transform"
  /\ HasPayload(t.doc, "Transform") /\ PayloadOf(t.doc, "Transform").k = "dict"
\* the `transform` object of a Transform payload, {} when it is left out
GeometryOf(payload) == DictGetDefault(payload, "transform", EmptyDict)
TranslationAxes == {"x", "y", "z"}
RotationAxes == {"x", "y", "z", "w"}
\* the axes of one group (translation or rotation) that the payload leaves
\* out: all of them when the group or the `transform` object is left out,
\* none when something that is no object stands in its place
MissingAxes(payload, group, axes) ==
  IF GeometryOf(payload).k # "dict" THEN {}
  ELSE LET g == DictGetDefault(GeometryOf(payload), group, EmptyDict)
       IN IF g.k # "dict" THEN {} ELSE axes \ DOMAIN g.f
\* d with every key of `keys` it lacks set to x
FillKeys(d, keys, x) == PyDict([key \in DOMAIN d.f \cup keys |-> IF key \in DOMAIN d.f THEN d.f[key] ELSE x])
\* the payload with every axis it leaves out filled in with 1.0
FilledPayload(payload) ==
  IF GeometryOf(payload).k # "dict" THEN payload
  ELSE LET tf == GeometryOf(payload)
           trans == DictGetDefault(tf, "translation", EmptyDict)
           rot == DictGetDefault(tf, "rotation", EmptyDict)
           filledTrans == IF trans.k = "dict" THEN FillKeys(trans, TranslationAxes, PyFloat(1)) ELSE trans
           filledRot == IF rot.k = "dict" THEN FillKeys(rot, RotationAxes, PyFloat(1)) ELSE rot
           filledTf == PyDict([key \in DOMAIN tf.f \cup {"translation", "rotation"} |->
                                 IF key = "translation" THEN filledTrans
                                 ELSE IF key = "rotation" THEN filledRot ELSE tf.f[key]])
       IN PyDict([key \in DOMAIN payload.f \cup {"transform"} |->
                    IF key = "transform" THEN filledTf ELSE payload.f[key]])
\* the axes of group g with those of `missing` absent
WithoutAxes(g, missing) == [a \in DOMAIN g |-> IF a \in missing THEN PyNone ELSE g[a]]

\* C11: transform axis decode: a Transform payload that leaves out an axis, a
\* translation or rotation object, or the whole transform object, and that
\* decodes to a present record once the axes left out are filled in, decodes
\* to a present record itself: the axes left out are absent, every other axis
\* and every other sub-field is what the filled-in payload decodes to.
C11_MissingAxisAbsent ==
  \A i \in CallsOf("deserialize") :
    IsTransformText(hist[i].arg) =>
      LET payload == PayloadOf(hist[i].arg.doc, "Transform")
          full == deserialize_spvalue(JsonText(PayloadDoc("Transform", "Transform", FilledPayload(payload))))
          noTrans == MissingAxes(payload, "translation", TranslationAxes)
          noRot == MissingAxes(payload, "rotation", RotationAxes)
      IN (full.k = "TransformOrUnknown" /\ full.value.k = "SPTransformStamped") =>
           /\ hist[i].ret.k = "TransformOrUnknown"
           /\ hist[i].ret.value.k = "SPTransformStamped"
           /\ hist[i].ret.value.transform.translation = WithoutAxes(full.value.transform.translation, noTrans)
           /\ hist[i].ret.value.transform.rotation = WithoutAxes(full.value.transform.rotation, noRot)
           /\ \A field \in {"active", "time_stamp", "parent_frame_id", "child_frame_id", "metadata"} :
                hist[i].ret.value[field] = full.value[field]

\* C11 witness: a payload with `active`, a full translation and no rotation
\* decoded to a present record with active true, the translation 1.0, 1.0, 1.0
\* and the four rotation axes absent.
C11_Witness ==
  \E i \in CallsOf("deserialize") :
    /\ IsTransformText(hist[i].arg)
    /\ LET payload == PayloadOf(hist[i].arg.doc, "Transform")
       IN /\ MissingAxes(payload, "rotation", RotationAxes) = RotationAxes
          /\ MissingAxes(payload, "translation", TranslationAxes) = {}
          /\ DictHas(payload, "active")
    /\ hist[i].ret.k = "TransformOrUnknown"
    /\ hist[i].ret.value.k = "SPTransformStamped"
    /\ hist[i].ret.value.active = PyBool(TRUE)
    /\ hist[i].ret.value.transform.translation = SPTranslation(PyFloat(1), PyFloat(1), PyFloat(1))
    /\ hist[i].ret.value.transform.rotation = SPRotation(PyNone, PyNone, PyNone, PyNone)

\* the decoder gives the Transform document t a present record
DecodesPresent(t, ret) ==
  IsTransformText(t) /\ ret.k = "TransformOrUnknown" /\ ret.value.k = "SPTransformStamped"

\* C12: transform metadata default on decode: the metadata of every Transform
\* decoded as present is a Map variant; it is the unknown Map when the
\* `metadata` field is missing, is no object, does not decode, or decodes to a
\* variant other than Map, and is the decoded Map otherwise.
C12_MetadataDefault ==
  \A i \in CallsOf("deserialize") :
    DecodesPresent(hist[i].arg, hist[i].ret) =>
      LET payload == PayloadOf(hist[i].arg.doc, "Transform")
          metadata == hist[i].ret.value.metadata
          decoded == deserialize_spvalue(JsonText(payload.f["metadata"]))
      IN /\ metadata.k = "MapOrUnknown"
         /\ IF ~DictHas(payload, "metadata") THEN metadata = MapOrUnknown(PyNone)
            ELSE IF payload.f["metadata"].k # "dict" THEN metadata = MapOrUnknown(PyNone)
            ELSE IF decoded.k # "MapOrUnknown" THEN metadata = MapOrUnknown(PyNone)
            ELSE metadata = decoded

\* C12 witness: present records were decoded from a payload without
\* `metadata`, or with a number, a document that does not decode, or a Bool
\* document in its place, and from one whose metadata is a Map of one pair.
C12_Witness ==
  \E i \in CallsOf("deserialize") :
    /\ DecodesPresent(hist[i].arg, hist[i].ret)
    /\ LET payload == PayloadOf(hist[i].arg.doc, "Transform")
       IN /\ DictHas(payload, "metadata")
          /\ payload.f["metadata"] \in {UnknownDoc("Bool"), MalformedDoc, PyInt(1)}
    /\ hist[i].ret.value.metadata = MapOrUnknown(PyNone)

\* v is a Transform with a present record
IsPresentTransform(v) == v.k = "TransformOrUnknown" /\ v.value.k = "SPTransformStamped"
\* the record has a translation and a rotation
HasBothParts(stamped) ==
  /\ stamped.transform.k = "SPTransform"
  /\ stamped.transform.translation.k = "SPTranslation"
  /\ stamped.transform.rotation.k = "SPRotation"

\* C13: transform encode: a present Transform encodes to a document whose
\* payload holds `transform` exactly when the record has both a translation
\* and a rotation, and holds `metadata` always; `metadata` is
\* {type: Map, value: "UNKNOWN"} when the record's metadata is absent.
C13_TransformEncode ==
  \A i \in CallsOf("serialize") :
    IsPresentTransform(hist[i].arg) =>
      /\ hist[i].ret.k = "text"
      /\ HasPayload(hist[i].ret.doc, "Transform")
      /\ LET stamped_dict == PayloadOf(hist[i].ret.doc, "Transform")
         IN /\ stamped_dict.k = "dict"
            /\ DictHas(stamped_dict, "transform") <=> HasBothParts(hist[i].arg.value)
            /\ DictHas(stamped_dict, "metadata")
            /\ IsNone(hist[i].arg.value.metadata) => stamped_dict.f["metadata"] = UnknownDoc("Map")

\* C13 witness: a record with a translation, no rotation and no metadata was
\* encoded without `transform` and with the unknown-Map document as metadata.
C13_Witness ==
  \E i \in CallsOf("serialize") :
    /\ IsPresentTransform(hist[i].arg)
    /\ hist[i].arg.value.transform.k = "SPTransform"
    /\ hist[i].arg.value.transform.translation.k = "SPTranslation"
    /\ IsNone(hist[i].arg.value.transform.rotation)
    /\ IsNone(hist[i].arg.value.metadata)
    /\ hist[i].ret.k = "text"
    /\ ~DictHas(PayloadOf(hist[i].ret.doc, "Transform"), "transform")
    /\ PayloadOf(hist[i].ret.doc, "Transform").f["metadata"] = UnknownDoc("Map")

RECURSIVE WireShaped(_)
\* doc is {"type": Tag, "value": "UNKNOWN" | {Tag: payload}} with Tag one of
\* the eight, and so is every document inside an Array payload, a Map pair
\* and a Transform's metadata
WireShaped(doc) ==
  /\ doc.k = "dict"
  /\ DOMAIN doc.f = {"type", "value"}
  /\ doc.f["type"].k = "str"
  /\ Len(doc.f["type"].s) = 1
  /\ doc.f["type"].s[1] \in Tags
  /\ LET tag == doc.f["type"].s[1]
         value == doc.f["value"]
     IN \/ value = PyStr(<<"UNKNOWN">>)
        \/ /\ value.k = "dict"
           /\ DOMAIN value.f = {tag}
           /\ LET payload == value.f[tag]
              IN CASE tag = "Array" ->
                        payload.k = "list" /\ \A j \in DOMAIN payload.items : WireShaped(payload.items[j])
                   [] tag = "Map" ->
                        payload.k = "list" /\ \A j \in DOMAIN payload.items :
                          /\ payload.items[j].k = "list"
                          /\ Len(payload.items[j].items) = 2
                          /\ WireShaped(payload.items[j].items[1])
                          /\ WireShaped(payload.items[j].items[2])
                   [] tag = "Transform" ->
                        payload.k = "dict" /\ DictHas(payload, "metadata") /\ WireShaped(payload.f["metadata"])
                   [] OTHER -> TRUE

\* C14: wire shape: every document serialize_spvalue returns, and every
\* document nested in its Array payloads, Map pairs and Transform metadata, is
\* an object with exactly `type`, one of the eight Tags, and `value`, which is
\* "UNKNOWN" or an object whose single key is that Tag; nested documents are
\* objects, never strings.
C14_WireShape ==
  \A i \in CallsOf("serialize") : hist[i].ret.k = "text" => WireShaped(hist[i].ret.doc)

\* C14 witness: an Array holding a Map, or a Map holding an Array or a Map,
\* was encoded: the document holds a document that holds documents.
C14_Witness ==
  \E i \in CallsOf("serialize") :
    /\ hist[i].ret.k = "text"
    /\ HasPayload(hist[i].ret.doc, "Array")
    /\ LET items == PayloadOf(hist[i].ret.doc, "Array").items
       IN \E j \in DOMAIN items :
            /\ HasPayload(items[j], "Map")
            /\ Len(PayloadOf(items[j], "Map").items) > 0

\* the document the encoder gives the Value v
DocOf(v) == serialize_spvalue(v).doc
\* the list payload of an Array or Map document given to the decoder, <<>>
\* when t is no such document
ListPayload(t, tag) ==
  IF IsObjectText(t) /\ HasTypeText(t.doc) /\ DocTag(t.doc) = tag /\ HasPayload(t.doc, tag)
     /\ PayloadOf(t.doc, tag).k = "list"
  THEN PayloadOf(t.doc, tag).items ELSE <<>>

\* C15: order and duplicates: an Array or Map document all of whose members
\* decode gives, member for member and in the same order, the decoded members;
\* an Array or Map that encodes gives, member for member and in the same
\* order, the documents of its members. Nothing is sorted or deduplicated: two
\* pairs with equal keys both stay, in order.
C15_OrderAndDuplicates ==
  /\ \A i \in CallsOf("deserialize") :
       LET items == ListPayload(hist[i].arg, "Array")
           pairs == ListPayload(hist[i].arg, "Map")
       IN /\ (items # <<>> /\ \A j \in DOMAIN items : Decodes(items[j])) =>
               hist[i].ret.value.items = [j \in DOMAIN items |-> deserialize_spvalue(JsonText(items[j]))]
          /\ (pairs # <<>> /\ \A j \in DOMAIN pairs : PairDecodes(pairs[j])) =>
               hist[i].ret.value.items =
                 [j \in DOMAIN pairs |-> PyTuple(deserialize_spvalue(JsonText(pairs[j].items[1])),
                                                 deserialize_spvalue(JsonText(pairs[j].items[2])))]
  /\ \A i \in CallsOf("serialize") :
       LET v == hist[i].arg
       IN (hist[i].ret.k = "text" /\ v.k \in {"ArrayOrUnknown", "MapOrUnknown"} /\ v.value.k = "list") =>
            IF v.k = "ArrayOrUnknown"
            THEN PayloadOf(hist[i].ret.doc, "Array").items = [j \in DOMAIN v.value.items |-> DocOf(v.value.items[j])]
            ELSE PayloadOf(hist[i].ret.doc, "Map").items =
                   [j \in DOMAIN v.value.items |->
                      PyList(<<DocOf(v.value.items[j].items[1]), DocOf(v.value.items[j].items[2])>>)]

\* C15 witness: a Map of three pairs with the same key, the values 1, unknown
\* and 1 again, was encoded and the document decoded: the document holds the
\* three pairs and so does the decoded Map, in that order.
C15_Witness ==
  /\ Len(hist) >= 2
  /\ RoundTripAt(1)
  /\ hist[1].arg.k = "MapOrUnknown"
  /\ hist[1].arg.value.k = "list"
  /\ hist[1].ret.k = "text"
  /\ LET pairs == hist[1].arg.value.items
     IN /\ Len(pairs) = 3
        /\ pairs[1].items[1] = pairs[2].items[1]
        /\ pairs[1].items[2] # pairs[2].items[2]
        /\ pairs[3] = pairs[1]
        /\ Len(PayloadOf(hist[1].ret.doc, "Map").items) = 3
        /\ hist[2].ret = hist[1].arg

\* p is s without its leading and trailing whitespace tokens
IsTrimOf(p, s) ==
  \E i \in 1..(Len(s) + 1) : \E j \in 0..Len(s) :
    /\ p = SubSeq(s, i, j)
    /\ \A h \in 1..(i - 1) : s[h] = " "
    /\ \A h \in (j + 1)..Len(s) : s[h] = " "
    /\ (p = <<>> \/ (p[1] # " " /\ p[Len(p)] # " "))
\* the text of a parse call, without its leading and trailing whitespace
TrimOf(s) == CHOOSE p \in {SubSeq(s, i, j) : i \in 1..(Len(s) + 1), j \in 0..Len(s)} : IsTrimOf(p, s)
\* the typed text t is the sentinel in some letter case
IsSentinel(t) == \E w \in UnknownSpellings : t = <<w>>
\* call i parses a typed text with target class c
ParsesFor(i, c) == i \in CallsOf("parse") /\ hist[i].arg.target_type = c

\* C16: input parser UNKNOWN: for each of the eight target variants, Array,
\* Map and Transform included, the text UNKNOWN, unknown or Unknown parses to
\* that variant with an absent payload.
C16_ParseUnknown ==
  \A i \in CallsOf("parse") :
    (hist[i].arg.target_type \in VariantClasses /\ IsSentinel(hist[i].arg.input_str.s)) =>
      hist[i].ret = [k |-> hist[i].arg.target_type, value |-> PyNone]

\* C16 witness: "unknown" in small letters was parsed for target Array and
\* gave the unknown Array.
C16_Witness ==
  \E i \in CallsOf("parse") :
    /\ ParsesFor(i, "ArrayOrUnknown")
    /\ hist[i].arg.input_str.s = <<"unknown">>
    /\ hist[i].ret = ArrayOrUnknown(PyNone)

\* C17 as stated: with target Bool, true, t, yes, y, 1 in any letter case
\* parse to present true, false, f, no, n, 0 to present false, and every
\* other text fails.
C17_BoolLiteralSet ==
  \A i \in CallsOf("parse") :
    ParsesFor(i, "BoolOrUnknown") =>
      LET t == hist[i].arg.input_str.s
      IN IF \E w \in TrueSpellings : t = <<w>> THEN hist[i].ret = BoolOrUnknown(PyBool(TRUE))
         ELSE IF \E w \in FalseSpellings : t = <<w>> THEN hist[i].ret = BoolOrUnknown(PyBool(FALSE))
         ELSE hist[i].ret = PyNone

\* C17 amended: with target Bool the text is read without its leading and
\* trailing whitespace; the sentinel in any letter case gives the unknown
\* Bool, true, t, yes, y, 1 in any letter case give present true, false, f,
\* no, n, 0 give present false, and every other text fails.
C17_BoolLiteralsAfterStrip ==
  \A i \in CallsOf("parse") :
    ParsesFor(i, "BoolOrUnknown") =>
      LET t == TrimOf(hist[i].arg.input_str.s)
      IN IF IsSentinel(t) THEN hist[i].ret = BoolOrUnknown(PyNone)
         ELSE IF \E w \in TrueSpellings : t = <<w>> THEN hist[i].ret = BoolOrUnknown(PyBool(TRUE))
         ELSE IF \E w \in FalseSpellings : t = <<w>> THEN hist[i].ret = BoolOrUnknown(PyBool(FALSE))
         ELSE hist[i].ret = PyNone

\* C17 witness: " YES " with whitespace on both sides was parsed for target
\* Bool and gave present true.
C17_Witness ==
  \E i \in CallsOf("parse") :
    /\ ParsesFor(i, "BoolOrUnknown")
    /\ hist[i].arg.input_str.s = <<" ", "YES", " ">>
    /\ hist[i].ret = BoolOrUnknown(PyBool(TRUE))

C19_StringVerbatim ==
  \A i \in CallsOf("parse") :
    ParsesFor(i, "StringOrUnknown") => hist[i].ret = StringOrUnknown(hist[i].arg.input_str)

\* C19 amended: with target String the text is read without its leading and
\* trailing whitespace: the sentinel in any letter case gives the unknown
\* String, every other text a present String whose payload is the text
\* without that whitespace, inner whitespace kept.
C19_StringStripped ==
  \A i \in CallsOf("parse") :
    ParsesFor(i, "StringOrUnknown") =>
      LET t == TrimOf(hist[i].arg.input_str.s)
      IN IF IsSentinel(t) THEN hist[i].ret = StringOrUnknown(PyNone)
         ELSE hist[i].ret = StringOrUnknown(PyStr(t))

\* C19 witness: " abc UNKNOWN " was parsed for target String and gave the
\* present String "abc UNKNOWN".
C19_Witness ==
  \E i \in CallsOf("parse") :
    /\ ParsesFor(i, "StringOrUnknown")
    /\ hist[i].arg.input_str.s = <<" ", "abc", " ", "UNKNOWN", " ">>
    /\ hist[i].ret = StringOrUnknown(PyStr(<<"abc", " ", "UNKNOWN">>))

\* C20: per-key batch results: after a press that sent a batch of several
\* keys, every key whose SET the server refused is named by a message on the
\* page.
C20_PerKeyBatchResults ==
  (press.pressed /\ Len(press.commands) >= 2) =>
    \A i \in DOMAIN press.commands :
      press.commands[i][1] \notin press.applied =>
        \E m \in DOMAIN shown.errors :
          /\ shown.errors[m].kind = "A Redis error occurred during the SET operation"
          /\ shown.errors[m].key = press.commands[i][1]

\* the `type` field of doc is missing or is none of the eight Tag strings
UnrecognizedTag(doc) == DictGet(doc, "type") \notin {[k |-> "str", s |-> <<tag>>] : tag \in Tags}

\* C23: unrecognized tag: a document whose `type` is missing or is not one of
\* the eight Tag strings is a decode failure, whether its `value` is "UNKNOWN",
\* a payload object or anything else; no variant is guessed.
C23_UnrecognizedTag ==
  \A i \in CallsOf("deserialize") :
    (IsObjectText(hist[i].arg) /\ UnrecognizedTag(hist[i].arg.doc)) => hist[i].ret = PyNone

\* C23 witness: {"type": "Zed", "value": "UNKNOWN"} was given to the decoder
\* and the failure result came back.
C23_Witness ==
  \E i \in CallsOf("deserialize") :
    /\ IsObjectText(hist[i].arg)
    /\ DictGet(hist[i].arg.doc, "type") = [k |-> "str", s |-> <<"Zed">>]
    /\ DictGet(hist[i].arg.doc, "value") = [k |-> "str", s |-> <<"UNKNOWN">>]
    /\ hist[i].ret = PyNone

\* C24: unsupported variant on encode: serialize_spvalue on an object that is
\* none of the eight variants returns the failure result and no document, and
\* for every argument it returns a text or the failure result: no exception
\* leaves it.
C24_UnsupportedVariant ==
  \A i \in CallsOf("serialize") :
    /\ hist[i].ret.k \in {"text", "None"}
    /\ (hist[i].arg.k \notin VariantClasses => hist[i].ret = PyNone)

\* C24 witness: an int, which is no variant, was given to the encoder and the
\* failure result came back.
C24_Witness ==
  \E i \in CallsOf("serialize") : hist[i].arg = PyInt(1) /\ hist[i].ret = PyNone

\* call i is a deserialize whose Value was then serialized, and call i + 2
\* deserialized what that gave
ReencodeAt(i) ==
  /\ i \in CallsOf("deserialize") /\ hist[i].ret.k \in VariantClasses
  /\ i + 1 \in CallsOf("serialize")
  /\ i + 2 \in DOMAIN hist

\* C26: re-encode stability: every Value v that a wire text decodes to is
\* encoded to a text, and that text decodes to v again, field for field; a
\* Transform decoded from a payload with no `transform` object or with a
\* missing axis is one of these.
C26_ReencodeStable ==
  \A i \in DOMAIN hist :
    ReencodeAt(i) =>
      /\ hist[i + 1].ret.k = "text"
      /\ hist[i + 2].op = "deserialize"
      /\ hist[i + 2].ret = hist[i].ret

\* v is a present Transform whose metadata is a Map that does not encode
HasFailingMetadata(v) ==
  /\ v.k = "TransformOrUnknown"
  /\ v.value.k = "SPTransformStamped"
  /\ v.value.metadata.k = "MapOrUnknown"
  /\ IsNone(serialize_spvalue(v.value.metadata))

\* C27: Transform metadata is exempt from fail-fast: a present Transform whose
\* metadata Map does not encode is still encoded, and the `metadata` field of
\* its document is {type: Map, value: "UNKNOWN"}.
C27_MetadataExempt ==
  \A i \in CallsOf("serialize") :
    HasFailingMetadata(hist[i].arg) =>
      /\ hist[i].ret.k = "text"
      /\ hist[i].ret.doc.f["value"].f["Transform"].f["metadata"] =
           [k |-> "dict", f |-> [type |-> [k |-> "str", s |-> <<"Map">>], value |-> [k |-> "str", s |-> <<"UNKNOWN">>]]]

\* C27 witness: a Transform with a time stamp and a metadata Map whose one
\* value is no Value was encoded to a text.
C27_Witness ==
  \E i \in CallsOf("serialize") :
    /\ HasFailingMetadata(hist[i].arg)
    /\ hist[i].arg.value.time_stamp.k = "datetime"
    /\ hist[i].arg.value.metadata.value.k = "list"
    /\ Len(hist[i].arg.value.metadata.value.items) = 1
    /\ hist[i].ret.k = "text"
    /\ "time_stamp" \in DOMAIN hist[i].ret.doc.f["value"].f["Transform"].f

\* a call of read_all_data has returned after its batch read
ReadReturned == reading.pc = "done" /\ ~reading.raised /\ reading.all_keys # <<>>
\* the keys the enumeration returned
ScannedKeys == {reading.all_keys[i] : i \in DOMAIN reading.all_keys}
\* the text the server held for key at the batch read does not decode
Undecodable(key) == key \in DOMAIN reading.at_mget /\ IsNone(deserialize_spvalue(reading.at_mget[key]))

\* C22: per-key decode isolation on read: a key whose stored text does not
\* decode is in the returned data with the missing marker, and every other key
\* of the same batch read that the server held is returned with the Value its
\* own text decodes to.
C22_DecodeIsolation ==
  ReadReturned =>
    \A key \in ScannedKeys :
      /\ key \in DOMAIN reading.ret.data
      /\ Undecodable(key) => reading.ret.data[key] = PyNone
      /\ (key \in DOMAIN reading.at_mget /\ ~Undecodable(key)) =>
           /\ reading.ret.data[key].k \in VariantClasses
           /\ reading.ret.data[key] = deserialize_spvalue(reading.at_mget[key])

\* C22 witness: a read returned in which the text of junk did not decode and,
\* after it in the batch, table was returned as the unknown Map.
C22_Witness ==
  /\ ReadReturned
  /\ reading.all_keys = <<"flag", "junk", "table">>
  /\ Undecodable("junk")
  /\ reading.ret.data["junk"] = PyNone
  /\ reading.ret.data["flag"] = BoolOrUnknown(PyBool(FALSE))
  /\ reading.ret.data["table"] = MapOrUnknown(PyNone)

\* position of key in the sorted order of the model's keys
KeyRank(key) == CHOOSE i \in DOMAIN KeyOrder : KeyOrder[i] = key

\* C28: scan/read race: a key the enumeration returned and another client
\* deleted before the batch read is in the returned data with the missing
\* marker, the other keys have the Values of their own texts, the returned data
\* has exactly the keys of the returned key list, which is sorted; and when the
\* store raises in the enumeration or the batch read the result is {}, [].
C28_ScanReadRace ==
  /\ ReadReturned =>
       /\ \A key \in ScannedKeys :
            /\ key \in DOMAIN reading.ret.data
            /\ IF key \notin DOMAIN reading.at_mget THEN reading.ret.data[key] = PyNone
               ELSE reading.ret.data[key] = deserialize_spvalue(reading.at_mget[key])
       /\ DOMAIN reading.ret.data = {reading.ret.all_keys[i] : i \in DOMAIN reading.ret.all_keys}
       /\ reading.ret.all_keys = reading.all_keys
       /\ \A i, j \in DOMAIN reading.ret.all_keys : i <= j => KeyRank(reading.ret.all_keys[i]) <= KeyRank(reading.ret.all_keys[j])
  /\ (reading.pc = "done" /\ reading.raised) =>
       (DOMAIN reading.ret.data = {} /\ reading.ret.all_keys = <<>>)

\* C28 witness: flag and table were enumerated, flag was deleted before the
\* batch read, and the read returned flag as missing and table as the unknown
\* Map.
C28_Witness ==
  /\ ReadReturned
  /\ ScannedKeys = {"flag", "table"}
  /\ "flag" \notin DOMAIN reading.at_mget
  /\ "table" \in DOMAIN reading.at_mget
  /\ reading.ret.data["flag"] = PyNone
  /\ reading.ret.data["table"] = MapOrUnknown(PyNone)

\* ---- C25: clearing the cache and rerunning after a write

\* C25: after a press in which the pipeline was executed, execute() returned
\* and the server applied at least one SET, the cache has been cleared and a
\* rerun has been asked for.
C25_ClearAndRerun ==
  (press.pressed /\ press.commands # <<>> /\ ~IsRaise(press.results) /\ press.applied # {})
    => (press.cache_cleared /\ press.rerun)

\* ---- C21: a row that fails does not stop the others

\* the text of a pair does not parse for the types chosen
PairFails(pair_data) ==
  \/ get_target_type_class(pair_data.key_type) = "None"
  \/ get_target_type_class(pair_data.value_type) = "None"
  \/ parse_input_to_spvalue(pair_data.key_str, get_target_type_class(pair_data.key_type)).k \in {"None", "raise"}
  \/ parse_input_to_spvalue(pair_data.value_str, get_target_type_class(pair_data.value_type)).k \in {"None", "raise"}
\* the text of an item does not parse for the type chosen
ItemFails(item_data) ==
  \/ get_target_type_class(item_data.item_type) = "None"
  \/ parse_input_to_spvalue(item_data.item_str, get_target_type_class(item_data.item_type)).k \in {"None", "raise"}
\* the row does not parse: one of its pairs, one of its items, or its text
RowFails(item) ==
  CASE item.current_type_name = "MapOrUnknown" -> \E p \in DOMAIN item.map_pairs : PairFails(item.map_pairs[p])
    [] item.current_type_name = "ArrayOrUnknown" -> \E p \in DOMAIN item.array_items : ItemFails(item.array_items[p])
    [] OTHER -> parse_input_to_spvalue(item.value_str, TargetClass(item.current_type_name)).k \in {"None", "raise"}
\* the keys of the SETs queued by the press
CommandKeys == {press.commands[c][1] : c \in DOMAIN press.commands}

\* C21: after a press, a key all of whose rows fail to parse is not in the
\* batch, whatever parts of those rows parsed, and the key of every row that
\* parses is in the batch.
C21_FailureIsolation ==
  press.pressed =>
    \A i \in DOMAIN items_to_set :
      items_to_set[i].key # "" =>
        /\ (\A j \in DOMAIN items_to_set : items_to_set[j].key = items_to_set[i].key => RowFails(items_to_set[j]))
             => items_to_set[i].key \notin CommandKeys
        /\ ~RowFails(items_to_set[i]) => items_to_set[i].key \in CommandKeys
\* a press with a Map row whose first pair parses and whose second does not,
\* and a second row that parses: one SET, of the second row's key
C21_Witness ==
  /\ press.pressed
  /\ Len(items_to_set) = 2
  /\ items_to_set[1].current_type_name = "MapOrUnknown"
  /\ Len(items_to_set[1].map_pairs) = 2
  /\ ~PairFails(items_to_set[1].map_pairs[1])
  /\ PairFails(items_to_set[1].map_pairs[2])
  /\ items_to_set[2].key \notin {"", items_to_set[1].key}
  /\ ~RowFails(items_to_set[2])
  /\ CommandKeys = {items_to_set[2].key}
  /\ press.applied = CommandKeys

\* ---- C29: the Tag of what is written

\* the Tag of the Value read for key from the server holding kv, "String"
\* when its text does not decode
ReadTag(kv, key) ==
  IF IsNone(deserialize_spvalue(kv[key])) THEN "String" ELSE TagOfClass(deserialize_spvalue(kv[key]).k)

\* C29: every text a press queues for a key has the Tag of the Value read for
\* that key before the press, String when the key's text did not decode; and
\* a key that was readable when the session began stays readable under the
\* same Tag.
C29_TagPreserved ==
  /\ [][press'.pressed =>
          \A c \in DOMAIN press'.commands :
            DocTag(press'.commands[c][2].doc) = ReadTag(store, press'.commands[c][1])]_vars
  /\ [](\A key \in DOMAIN SetterStore :
          ~IsNone(deserialize_spvalue(SetterStore[key])) =>
            /\ key \in DOMAIN store
            /\ ~IsNone(deserialize_spvalue(store[key]))
            /\ ReadTag(store, key) = ReadTag(SetterStore, key))
\* a press that wrote the unknown Bool to a Bool key for the text UNKNOWN,
\* and a present String to a key whose text did not decode
C29_Witness ==
  /\ press.pressed
  /\ Len(items_to_set) = 2
  /\ items_to_set[1].key = "flag"
  /\ items_to_set[1].value_str = PyStr(<<"UNKNOWN">>)
  /\ items_to_set[2].key = "junk"
  /\ items_to_set[2].value_str = PyStr(<<"abc">>)
  /\ press.commands = <<<<"flag", JsonText(UnknownDoc("Bool"))>>,
                        <<"junk", JsonText(PayloadDoc("String", "String", PyStr(<<"abc">>)))>>>>
  /\ press.applied = {"flag", "junk"}
  /\ store["flag"] = JsonText(UnknownDoc("Bool"))

\* ---- C30: the ids of rows, pairs and items

\* no two members of the list have the same id
DistinctIds(list) == \A a, b \in DOMAIN list : a # b => list[a].id # list[b].id

\* C30: the rows have pairwise distinct ids, the pairs of each row and the
\* items of each row have pairwise distinct ids, and there is at least one
\* row.
C30_RowIdentity ==
  /\ Len(items_to_set) >= 1
  /\ DistinctIds(items_to_set)
  /\ \A i \in DOMAIN items_to_set :
       /\ DistinctIds(items_to_set[i].map_pairs)
       /\ DistinctIds(items_to_set[i].array_items)
\* rows, pairs and items added after the removal of an earlier one: two rows
\* with ids 1 and 2, one with pairs 1 and 2, the other with items 1 and 2
C30_Witness ==
  /\ Len(items_to_set) = 2
  /\ items_to_set[1].id = 1
  /\ items_to_set[2].id = 2
  /\ Len(items_to_set[1].map_pairs) = 2
  /\ items_to_set[1].map_pairs[1].id = 1
  /\ items_to_set[1].map_pairs[2].id = 2
  /\ Len(items_to_set[2].array_items) = 2
  /\ items_to_set[2].array_items[1].id = 1
  /\ items_to_set[2].array_items[2].id = 2

====
